---- MODULE Spec2Model ----
(***************************************************************************)
(* ONNX importer: Graph / Subgraph construction and conversion             *)
(* (frontends/onnx graph.cpp).  An ONNX model is walked into an IR graph:   *)
(* initializers -> inputs -> operator verification -> node conversion      *)
(* (recursing into subgraphs) -> dangling parameter removal / input         *)
(* lifting -> function creation.                                            *)
(***************************************************************************)
EXTENDS Integers, Sequences, FiniteSets, TLC

VARIABLES
    model,      \* the decoded top-level ModelProto (immutable input)
    telemetry,  \* whether a TelemetryExtension was supplied
    graphs,     \* the Graph / Subgraph objects, indexed by creation order
    ir,         \* the IR nodes created so far, indexed by creation order
    stack,      \* call stack: one frame per Graph being constructed/converted
    status,     \* "running", "done" or "failed"
    failure,    \* the exception that ended the conversion, or NoFailure
    events,     \* telemetry events sent so far
    parked,     \* the conversion that is not running, and what one run alone gave
    app         \* the benchmark application: its flags, locals and position in main

vars == <<model, telemetry, graphs, ir, stack, status, failure, events, parked, app>>

(***************************************************************************)
(* Bounds of the explored models.                                          *)
(***************************************************************************)
MaxInitializers == 2
MaxNodes == 2
MaxOutputs == 2
\* the benchmark application: requested iterations, infer requests, groups of
\* data shapes, and the iterations of the measurement loop that are followed
MaxNiter == 4
MaxNireq == 3
MaxGroups == 3
MaxIteration == 16

(***************************************************************************)
(* Small helpers.                                                          *)
(***************************************************************************)
Range(s) == {s[k] : k \in 1..Len(s)}

SeqsUpTo(S, n) == UNION {[1..k -> S] : k \in 0..n}

SeqsFromTo(S, m, n) == UNION {[1..k -> S] : k \in m..n}

Last(s) == s[Len(s)]

RECURSIVE Join(_, _)
\* std::string accumulation of `keys` separated by `sep`
Join(keys, sep) ==
    IF keys = <<>> THEN ""
    ELSE IF Len(keys) = 1 THEN keys[1]
    ELSE keys[1] \o sep \o Join(Tail(keys), sep)

RECURSIVE Filter(_, _)
\* the subsequence of `s` whose elements are in `S`
Filter(s, S) ==
    IF s = <<>> THEN <<>>
    ELSE IF s[1] \in S THEN <<s[1]>> \o Filter(Tail(s), S)
    ELSE Filter(Tail(s), S)

NoFailure == [type |-> "none", what |-> ""]

(***************************************************************************)
(* The decoded model (ONNX protobuf messages).                             *)
(***************************************************************************)
\* TensorProto: a named constant blob (an initializer)
TensorProto(name, has_name, dims, data, external_data) ==
    [name |-> name, has_name |-> has_name, data_type |-> "float",
     dims |-> dims, data |-> data, external_data |-> external_data]

\* ValueInfoProto: a declared graph input or output
ValueInfoProto(name) == [name |-> name, elem_type |-> "float", shape |-> <<1>>]

\* NodeProto: one operation instance; `subgraphs` are its graph attributes
NodeProto(name, domain, op_type, input, output, subgraphs) ==
    [name |-> name, domain |-> domain, op_type |-> op_type,
     input |-> input, output |-> output, subgraphs |-> subgraphs]

\* ModelProto / GraphProto: the body of one scope
ModelProto(initializer, input, node, output, opset_import) ==
    [initializer |-> initializer, input |-> input, node |-> node,
     output |-> output, opset_import |-> opset_import]

(***************************************************************************)
(* Operator registry (OperatorsBridge) and the per-model opset table.      *)
(***************************************************************************)
\* the operator set the bridge holds for a domain (empty: unknown domain)
get_operator_set(domain) ==
    CASE domain = "" -> {"Add", "Dropout", "GRU", "Identity", "Loop", "Split",
                         "Checked", "Foreign", "TopK"}
      [] domain = "custom.ops" -> {"Foo"}
      [] OTHER -> {}

\* Model::Model: the opset table built from the opset imports; the default
\* domain is always present
InitialOpset(proto) ==
    [d \in proto.opset_import \cup {""} |-> get_operator_set(d)]

get_node_domain(node_proto) == node_proto.domain

\* Model::is_operator_available
is_operator_available(opset, node_proto) ==
    /\ get_node_domain(node_proto) \in DOMAIN opset
    /\ node_proto.op_type \in opset[get_node_domain(node_proto)]

\* Model::enable_opset_domain: an already enabled domain is not updated, a
\* domain the bridge has no operators for is not enabled
enable_opset_domain(opset, domain) ==
    IF domain \in DOMAIN opset \/ get_operator_set(domain) = {}
    THEN opset
    ELSE [d \in DOMAIN opset \cup {domain} |->
            IF d = domain THEN get_operator_set(domain) ELSE opset[d]]

\* lexicographic (ASCII) order of the domains and operator types that occur
DomainOrder == <<"", "custom.ops", "unknown.dom">>

OpTypeOrder ==
    <<"Add", "Bar", "Checked", "Dropout", "Foo", "Foreign", "GRU", "Identity", "Loop",
      "Split", "TopK">>

\* detail::get_op_domain_and_name
get_op_domain_and_name(node_proto) ==
    (IF get_node_domain(node_proto) = "" THEN ""
     ELSE get_node_domain(node_proto) \o ".") \o node_proto.op_type

\* iteration order of a std::map keyed by get_op_domain_and_name: every
\* default-domain key (upper-case initial) sorts before "custom.ops.*", which
\* sorts before "unknown.dom.*"
RECURSIVE KeysOfDomains(_)
KeysOfDomains(ds) ==
    IF ds = <<>> THEN <<>>
    ELSE [k \in 1..Len(OpTypeOrder) |->
            IF ds[1] = "" THEN OpTypeOrder[k] ELSE ds[1] \o "." \o OpTypeOrder[k]]
         \o KeysOfDomains(Tail(ds))

KeyOrder == KeysOfDomains(DomainOrder)

(***************************************************************************)
(* GraphCache: tensor name -> IR output.                                   *)
(***************************************************************************)
EmptyCache == <<>>

contains(cache, name) == name \in DOMAIN cache

get_node(cache, name) == cache[name]

emplace_node(cache, name, output) ==
    [n \in DOMAIN cache \cup {name} |-> IF n = name THEN output ELSE cache[n]]

remove_node(cache, name) == [n \in DOMAIN cache \ {name} |-> cache[n]]

(***************************************************************************)
(* IR nodes and outputs.                                                   *)
(***************************************************************************)
\* Output<Node>: (producing node, output index)
Output(node, index) == [node |-> node, index |-> index]

\* a node of the IR graph; `names` holds one tensor-name set per output
IRNode(type, friendly_name, inputs, names, element_type, shape, data, scope) ==
    [type |-> type, friendly_name |-> friendly_name, inputs |-> inputs,
     names |-> names, element_type |-> element_type, shape |-> shape,
     data |-> data, scope |-> scope]

\* the unique name a node gets when none is set
AutoName(type, id) == type \o "_" \o ToString(id)

is_null(irs, output) == irs[output.node].type = "NullNode"

is_constant(irs, id) == irs[id].type = "Constant"

get_names(irs, output) == irs[output.node].names[output.index + 1]

set_names(irs, output, names) ==
    [irs EXCEPT ![output.node].names[output.index + 1] = names]

add_names(irs, output, names) ==
    [irs EXCEPT ![output.node].names[output.index + 1] = @ \cup names]

set_friendly_name(irs, id, name) == [irs EXCEPT ![id].friendly_name = name]

RECURSIVE Product(_)
Product(dims) == IF dims = <<>> THEN 1 ELSE dims[1] * Product(Tail(dims))

(***************************************************************************)
(* Graph objects and call frames.                                          *)
(***************************************************************************)
\* rt_info names the Graph a decoded function is associated with, 0 for none
NoFunction == [built |-> FALSE, results |-> <<>>, parameters |-> <<>>, rt_info |-> 0]

\* a Graph (m_parent_graph = 0) or a Subgraph (m_parent_graph = its parent)
NewGraph(proto, parent) ==
    [m_model |-> proto,
     m_opset |-> InitialOpset(proto),
     m_cache |-> EmptyCache,
     m_parameters |-> <<>>,
     m_parent_graph |-> parent,
     m_inputs_from_parent |-> <<>>,
     m_parameter_to_parent_node_map |-> <<>>,
     unknown_operators |-> <<>>,
     function |-> NoFunction,
     decoded |-> NoFunction]

\* a call frame; `mode` is what the caller asked for: "convert" (a full
\* conversion), "decode" (a decode-only conversion) or "reconvert" (the full
\* conversion of a Graph that was decoded before)
Frame(graph, pc, i) ==
    [graph |-> graph, pc |-> pc, i |-> i, built |-> <<>>, j |-> 0, mode |-> "convert"]

\* skips the loops that have nothing (left) to iterate over
Settle(g, f) ==
    LET f1 == IF f.pc = "initializers" /\ f.i > Len(g.m_model.initializer)
              THEN [f EXCEPT !.pc = "inputs", !.i = 1] ELSE f
        f2 == IF f1.pc = "inputs" /\ f1.i > Len(g.m_model.input)
              THEN [f1 EXCEPT !.pc = "operators", !.i = 1] ELSE f1
        f2d == IF f2.pc = "decode_nodes" /\ f2.i > Len(g.m_model.node)
               THEN [f2 EXCEPT !.pc = IF g.m_parent_graph = 0 THEN "create_function"
                                      ELSE "finalize",
                               !.i = 1]
               ELSE f2
        f3 == IF f2d.pc = "nodes" /\ f2d.i > Len(g.m_model.node)
              THEN [f2d EXCEPT !.pc = "finalize", !.i = 1] ELSE f2d
        f4 == IF /\ f3.pc = "finalize" /\ g.m_parent_graph = 0
                 /\ f3.i > Len(g.m_parameters)
              THEN [f3 EXCEPT !.pc = "create_function", !.i = 1] ELSE f3
    IN f4

\* the position of a conversion: its frames, its status and its exception
Context(frames, st, fl) == [stack |-> frames, status |-> st, failure |-> fl]

\* one conversion only
Alone ==
    [phase |-> "alone", tops |-> <<>>, running |-> 0,
     alone |-> Context(<<>>, "running", NoFailure),
     other |-> Context(<<>>, "running", NoFailure)]

Top == stack[Len(stack)]

Running == status = "running" /\ stack # <<>>

ReplaceTop(f) == [stack EXCEPT ![Len(stack)] = f]

Pop == SubSeq(stack, 1, Len(stack) - 1)

\* an exception ends the conversion: nothing in graph.cpp catches it for
\* good; the frames stay as they were when it was thrown
Throw(type, what) ==
    /\ status' = "failed"
    /\ failure' = [type |-> type, what |-> what]
    /\ stack' = stack

(***************************************************************************)
(* Graph::Graph: initializers.                                             *)
(***************************************************************************)
\* Tensor::get_ng_constant: what decoding the payload raises
TensorError(t) ==
    IF t.external_data = "missing" THEN "invalid_external_data"
    ELSE IF Len(t.data) # Product(t.dims) THEN "ngraph_error"
    ELSE "none"

MutInitializerConstant(t, id, scope) ==
    IRNode("Constant", t.name, <<>>, <<{}>>, t.data_type, t.dims, t.data, scope)

\* the Constant created for a named initializer whose decoding did not raise
\* invalid_external_data: the decoded payload, or a scalar 0 of its type
InitializerConstant(t, id, scope) ==
    IF TensorError(t) = "ngraph_error"
    THEN IRNode("Constant", AutoName("Constant", id), <<>>, <<{}>>,
                t.data_type, <<>>, <<0>>, scope)
    ELSE IRNode("Constant", t.name, <<>>, <<{}>>, t.data_type, t.dims, t.data, scope)

MutInitializerFatal(t) == FALSE

\* the catch clause that rethrows
InitializerFatal(t) == TensorError(t) = "invalid_external_data"

ProcessInitializer ==
    /\ Running
    /\ Top.pc = "initializers"
    /\ LET s == Top.graph
           g == graphs[s]
           t == g.m_model.initializer[Top.i]
           id == Len(ir) + 1
           next == [Top EXCEPT !.i = @ + 1]
       IN IF ~t.has_name
          THEN /\ stack' = ReplaceTop(Settle(g, next))
               /\ UNCHANGED <<graphs, ir, status, failure>>
          ELSE IF InitializerFatal(t)
          THEN /\ Throw("invalid_external_data", t.name)
               /\ UNCHANGED <<graphs, ir>>
          ELSE /\ ir' = set_names(Append(ir, InitializerConstant(t, id, s)),
                                  Output(id, 0), {t.name})
               /\ graphs' = [graphs EXCEPT ![s].m_cache =
                                emplace_node(@, t.name, Output(id, 0))]
               /\ stack' = ReplaceTop(Settle(g, next))
               /\ UNCHANGED <<status, failure>>
    /\ UNCHANGED <<app, model, telemetry, parked, events>>

(***************************************************************************)
(* Graph::Graph: declared inputs.                                          *)
(***************************************************************************)
\* ValueInfo::get_ng_parameter
get_ng_parameter(value_info, scope) ==
    IRNode("Parameter", value_info.name, <<>>, <<{value_info.name}>>,
           value_info.elem_type, value_info.shape, <<>>, scope)

MutInputShadowed(cache, input) == FALSE

\* a Constant was already created from an initializer of that name
InputShadowed(cache, input) == contains(cache, input.name)

\* ProcessInput with one parameter list for all top-level Graphs
MutProcessInputSharedParameters ==
    /\ Running
    /\ Top.pc = "inputs"
    /\ LET s == Top.graph
           g == graphs[s]
           input == g.m_model.input[Top.i]
           id == Len(ir) + 1
       IN /\ IF InputShadowed(g.m_cache, input)
             THEN UNCHANGED <<graphs, ir>>
             ELSE /\ ir' = Append(ir, get_ng_parameter(input, s))
                  /\ graphs' = [t \in 1..Len(graphs) |->
                        IF t = s
                        THEN [g EXCEPT !.m_parameters = Append(@, id),
                                       !.m_cache = emplace_node(@, input.name, Output(id, 0))]
                        ELSE IF g.m_parent_graph = graphs[t].m_parent_graph
                        THEN [graphs[t] EXCEPT !.m_parameters = Append(@, id)]
                        ELSE graphs[t]]
          /\ stack' = ReplaceTop(Settle(g, [Top EXCEPT !.i = @ + 1]))
    /\ UNCHANGED <<app, model, telemetry, parked, status, failure, events>>

ProcessInput ==
    /\ Running
    /\ Top.pc = "inputs"
    /\ LET s == Top.graph
           g == graphs[s]
           input == g.m_model.input[Top.i]
           id == Len(ir) + 1
       IN /\ IF InputShadowed(g.m_cache, input)
             THEN UNCHANGED <<graphs, ir>>
             ELSE /\ ir' = Append(ir, get_ng_parameter(input, s))
                  /\ graphs' = [graphs EXCEPT
                         ![s].m_parameters = Append(@, id),
                         ![s].m_cache = emplace_node(@, input.name, Output(id, 0))]
          /\ stack' = ReplaceTop(Settle(g, [Top EXCEPT !.i = @ + 1]))
    /\ UNCHANGED <<app, model, telemetry, parked, status, failure, events>>

(***************************************************************************)
(* Graph::Graph: verification of the operators.                            *)
(***************************************************************************)
RECURSIVE MutScanOperatorsInsideTelemetry(_, _, _)
\* ScanOperators with the availability test inside `if (telemetry)`
MutScanOperatorsInsideTelemetry(nodes, tel, acc) ==
    IF nodes = <<>> THEN acc
    ELSE LET node_proto == nodes[1]
             key == get_op_domain_and_name(node_proto)
             op == node_proto.op_type
             counted == IF op \in DOMAIN acc.op_statistics
                        THEN [acc.op_statistics EXCEPT ![op] = @ + 1]
                        ELSE [o \in DOMAIN acc.op_statistics \cup {op} |->
                                IF o = op THEN 1 ELSE acc.op_statistics[o]]
             acc1 == IF tel THEN [acc EXCEPT !.op_statistics = counted] ELSE acc
             acc2 == IF ~tel \/ is_operator_available(acc.opset, node_proto)
                     THEN acc1
                     ELSE [acc1 EXCEPT
                            !.unknown_operators =
                                IF key \in DOMAIN @ THEN @
                                ELSE [k \in DOMAIN @ \cup {key} |->
                                        IF k = key THEN node_proto ELSE @[k]],
                            !.opset = enable_opset_domain(@, get_node_domain(node_proto))]
         IN MutScanOperatorsInsideTelemetry(Tail(nodes), tel, acc2)

RECURSIVE ScanOperators(_, _, _)
\* the loop over the nodes: counts the operator types, collects the
\* unavailable operators (the first node of each key is kept) and tries to
\* enable the domain of each unavailable node
ScanOperators(nodes, tel, acc) ==
    IF nodes = <<>> THEN acc
    ELSE LET node_proto == nodes[1]
             key == get_op_domain_and_name(node_proto)
             op == node_proto.op_type
             counted == IF op \in DOMAIN acc.op_statistics
                        THEN [acc.op_statistics EXCEPT ![op] = @ + 1]
                        ELSE [o \in DOMAIN acc.op_statistics \cup {op} |->
                                IF o = op THEN 1 ELSE acc.op_statistics[o]]
             acc1 == IF tel THEN [acc EXCEPT !.op_statistics = counted] ELSE acc
             acc2 == IF is_operator_available(acc.opset, node_proto)
                     THEN acc1
                     ELSE [acc1 EXCEPT
                            !.unknown_operators =
                                IF key \in DOMAIN @ THEN @
                                ELSE [k \in DOMAIN @ \cup {key} |->
                                        IF k = key THEN node_proto ELSE @[k]],
                            !.opset = enable_opset_domain(@, get_node_domain(node_proto))]
         IN ScanOperators(Tail(nodes), tel, acc2)

MutReverifyFirstOnly(opset, unknown_operators) ==
    LET all == {k \in DOMAIN unknown_operators :
                    ~is_operator_available(opset, unknown_operators[k])}
        first == Filter(KeyOrder, all)
        left == IF first = <<>> THEN {} ELSE {first[1]}
    IN [k \in left |-> unknown_operators[k]]

MutReverifyKeepsAll(opset, unknown_operators) == unknown_operators

\* the second pass: operators that became available are erased
Reverify(opset, unknown_operators) ==
    LET left == {k \in DOMAIN unknown_operators :
                    ~is_operator_available(opset, unknown_operators[k])}
    IN [k \in left |-> unknown_operators[k]]

\* detail::to_string: the keys in map order, ", " between them
to_string(map) == Join(Filter(KeyOrder, DOMAIN map), ", ")

\* the op_count events, in the order of the op_statistics map
OpCountEvents(op_statistics) ==
    LET ops == Filter(OpTypeOrder, DOMAIN op_statistics)
    IN [k \in 1..Len(ops) |->
            [category |-> "op_count", action |-> "onnx_" \o ops[k],
             value |-> op_statistics[ops[k]]]]

UnsupportedMessage == "nGraph does not support the following ONNX operations: "

VerifyOperators ==
    /\ Running
    /\ Top.pc = "operators"
    /\ LET s == Top.graph
           g == graphs[s]
           scan == ScanOperators(g.m_model.node, telemetry,
                                 [opset |-> g.m_opset, unknown_operators |-> <<>>,
                                  op_statistics |-> <<>>])
           unknown == Reverify(scan.opset, scan.unknown_operators)
       IN /\ graphs' = [graphs EXCEPT ![s].m_opset = scan.opset,
                                      ![s].unknown_operators = unknown]
          /\ events' = IF telemetry THEN events \o OpCountEvents(scan.op_statistics)
                       ELSE events
          /\ IF DOMAIN unknown # {}
             THEN Throw("CheckFailure", UnsupportedMessage \o to_string(unknown))
             ELSE /\ UNCHANGED <<status, failure>>
                  /\ IF g.m_parent_graph = 0
                     THEN stack' = ReplaceTop([Top EXCEPT !.pc = "constructed"])
                     ELSE \* Subgraph::Subgraph returns to the Node being built
                          stack' = [Pop EXCEPT ![Len(stack) - 1].built = Append(@, s)]
    /\ UNCHANGED <<app, model, telemetry, parked, ir>>

(***************************************************************************)
(* Name resolution through the scope chain.                                *)
(***************************************************************************)
RECURSIVE is_ng_node_in_cache(_, _, _)
RECURSIVE get_ng_node_from_cache(_, _, _)

\* Graph::is_ng_node_in_cache
Graph_is_ng_node_in_cache(gs, s, name) == contains(gs[s].m_cache, name)

\* Subgraph::is_ng_node_in_cache
Subgraph_is_ng_node_in_cache(gs, s, name) ==
    IF contains(gs[s].m_cache, name) THEN TRUE
    ELSE is_ng_node_in_cache(gs, gs[s].m_parent_graph, name)

\* the virtual call
is_ng_node_in_cache(gs, s, name) ==
    IF gs[s].m_parent_graph = 0 THEN Graph_is_ng_node_in_cache(gs, s, name)
    ELSE Subgraph_is_ng_node_in_cache(gs, s, name)

\* what a lookup of a name the cache does not hold yields (it throws)
NotFound == Output(0, 0)

\* Graph::get_ng_node_from_cache
Graph_get_ng_node_from_cache(gs, s, name) ==
    IF contains(gs[s].m_cache, name) THEN get_node(gs[s].m_cache, name) ELSE NotFound

MutSubgraphGetNgNodeFromCache(gs, s, name) ==
    IF is_ng_node_in_cache(gs, gs[s].m_parent_graph, name)
    THEN get_ng_node_from_cache(gs, gs[s].m_parent_graph, name)
    ELSE Graph_get_ng_node_from_cache(gs, s, name)

\* Subgraph::get_ng_node_from_cache
Subgraph_get_ng_node_from_cache(gs, s, name) ==
    IF contains(gs[s].m_cache, name) THEN get_node(gs[s].m_cache, name)
    ELSE get_ng_node_from_cache(gs, gs[s].m_parent_graph, name)

\* the virtual call
get_ng_node_from_cache(gs, s, name) ==
    IF gs[s].m_parent_graph = 0 THEN Graph_get_ng_node_from_cache(gs, s, name)
    ELSE Subgraph_get_ng_node_from_cache(gs, s, name)

(***************************************************************************)
(* Node: inputs and the conversion functions of the registry.              *)
(***************************************************************************)
RECURSIVE get_ng_inputs(_, _, _, _)
\* Node::get_ng_inputs: an empty name is an absent optional input (a
\* NullNode), any other name is looked up through the Graph of the node.
\* Yields the IR (NullNodes added), the inputs and whether a lookup failed.
get_ng_inputs(gs, s, names, acc) ==
    IF names = <<>> THEN acc
    ELSE IF names[1] = ""
    THEN get_ng_inputs(gs, s, Tail(names),
            [acc EXCEPT
              !.ir = Append(@, IRNode("NullNode", AutoName("NullNode", Len(@) + 1),
                                      <<>>, <<{}>>, "undefined", <<>>, <<>>, s)),
              !.inputs = Append(@, Output(Len(acc.ir) + 1, 0))])
    ELSE IF ~is_ng_node_in_cache(gs, s, names[1])
    THEN [acc EXCEPT !.missing = names[1]]
    ELSE get_ng_inputs(gs, s, Tail(names),
            [acc EXCEPT !.inputs = Append(@, get_ng_node_from_cache(gs, s, names[1]))])

RECURSIVE get_inputs_from_parent(_, _, _)
\* Subgraph::get_inputs_from_parent: the parent's values of the lifted names
get_inputs_from_parent(gs, s, names) ==
    IF names = <<>> THEN <<>>
    ELSE <<get_ng_node_from_cache(gs, gs[s].m_parent_graph, names[1])>>
         \o get_inputs_from_parent(gs, s, Tail(names))

RECURSIVE ImplicitInputs(_, _)
\* the values the subgraphs of a node borrow from the scope of the node
ImplicitInputs(gs, built) ==
    IF built = <<>> THEN <<>>
    ELSE get_inputs_from_parent(gs, built[1], gs[built[1]].m_inputs_from_parent)
         \o ImplicitInputs(gs, Tail(built))

NewOp(type, id, inputs, nout, s) ==
    IRNode(type, AutoName(type, id), inputs, [k \in 1..nout |-> {}],
           "float", <<1>>, <<>>, s)

\* The conversion function of an operator type: the IR nodes it creates and
\* the outputs it returns.  Add/Foo: one node, one output.  Split: one node
\* with every declared output.  GRU: one node per declared output.
\* Identity: the inputs themselves.  Dropout: the input itself, then a mask.
\* Loop: one node owning the bodies; the values the bodies borrow are inputs.
\* TopK: one node with two outputs, however many are declared.
\* Checked: fails its own validation of the node.  Foreign: throws a value
\* that is no std::exception.  `thrown` is the type of what was thrown.
ConversionFunction(irs, node, inputs, implicit, s) ==
    LET id == Len(irs) + 1
        n == Len(node.output)
        op == node.op_type
    IN CASE op = "Identity" ->
              [ir |-> irs, outputs |-> inputs, what |-> "", thrown |-> ""]
         [] op = "Dropout" /\ inputs = <<>> ->
              [ir |-> irs, outputs |-> <<>>, what |-> "vector::at", thrown |-> "std::out_of_range"]
         [] op = "Dropout" /\ n < 2 ->
              [ir |-> irs, outputs |-> <<inputs[1]>>, what |-> "", thrown |-> ""]
         [] op = "Dropout" /\ n >= 2 ->
              [ir |-> Append(irs, IRNode("Constant", AutoName("Constant", id), <<>>,
                                         <<{}>>, "boolean", <<1>>, <<1>>, s)),
               outputs |-> <<inputs[1], Output(id, 0)>>, what |-> "", thrown |-> ""]
         [] op = "Checked" ->
              [ir |-> irs, outputs |-> <<>>, thrown |-> "OnnxNodeValidationFailure",
               what |-> "While validating ONNX node '<Node(Checked): "
                        \o node.name \o ">': check failed"]
         [] op = "Foreign" ->
              [ir |-> irs, outputs |-> <<>>, thrown |-> "foreign", what |-> ""]
         [] op = "TopK" ->
              [ir |-> Append(irs, NewOp("TopK", id, inputs, 2, s)),
               outputs |-> <<Output(id, 0), Output(id, 1)>>, what |-> "", thrown |-> ""]
         [] op = "Split" ->
              [ir |-> Append(irs, NewOp("Split", id, inputs, n, s)),
               outputs |-> [k \in 1..n |-> Output(id, k - 1)], what |-> "", thrown |-> ""]
         [] op = "GRU" ->
              [ir |-> irs \o [k \in 1..n |-> NewOp("GRU", id + k - 1, inputs, 1, s)],
               outputs |-> [k \in 1..n |-> Output(id + k - 1, 0)], what |-> "", thrown |-> ""]
         [] op = "Loop" ->
              [ir |-> Append(irs, NewOp("MultiSubGraphOp", id, inputs \o implicit, n, s)),
               outputs |-> [k \in 1..n |-> Output(id, k - 1)], what |-> "", thrown |-> ""]
         [] OTHER ->
              [ir |-> Append(irs, NewOp(op, id, inputs, 1, s)),
               outputs |-> <<Output(id, 0)>>, what |-> "", thrown |-> ""]

\* error::detail::get_error_msg_prefix
get_error_msg_prefix(node) ==
    "While validating ONNX node '"
    \o (IF node.name # "" THEN node.name ELSE get_op_domain_and_name(node)) \o "'"

(***************************************************************************)
(* Graph::set_friendly_names.                                              *)
(***************************************************************************)
\* detail::common_node_for_all_outputs
MutCommonNodeOnlyForOneOutput(outputs) == Len(outputs) = 1

common_node_for_all_outputs(outputs) ==
    \A k \in 2..Len(outputs) : outputs[k].node = outputs[1].node

RECURSIVE MutNameIdentityOutputsReplaced(_, _, _, _)
MutNameIdentityOutputsReplaced(irs, node, outputs, i) ==
    IF i > Len(outputs) THEN irs
    ELSE MutNameIdentityOutputsReplaced(set_names(irs, outputs[i], {node.output[i]}),
                                        node, outputs, i + 1)

RECURSIVE NameIdentityOutputs(_, _, _, _)
NameIdentityOutputs(irs, node, outputs, i) ==
    IF i > Len(outputs) THEN irs
    ELSE NameIdentityOutputs(add_names(irs, outputs[i], {node.output[i]}),
                             node, outputs, i + 1)

RECURSIVE MutNameOutputsFirstWins(_, _, _, _, _)
MutNameOutputsFirstWins(irs, node, outputs, common_node, i) ==
    IF i > Len(outputs) \/ i > Len(node.output) THEN irs
    ELSE LET first == \A j \in 1..(i - 1) : outputs[j].node # outputs[i].node
             named ==
                 IF node.name = ""
                 THEN IF first
                      THEN set_friendly_name(irs, outputs[i].node, node.output[i])
                      ELSE irs
                 ELSE IF common_node
                 THEN set_friendly_name(irs, outputs[i].node, node.name)
                 ELSE set_friendly_name(irs, outputs[i].node,
                                        node.name \o "_" \o node.output[i])
             bound == IF ~is_null(named, outputs[i])
                      THEN set_names(named, outputs[i], {node.output[i]})
                      ELSE named
         IN MutNameOutputsFirstWins(bound, node, outputs, common_node, i + 1)

RECURSIVE MutNameOutputsUnbound(_, _, _, _, _)
MutNameOutputsUnbound(irs, node, outputs, common_node, i) ==
    IF i > Len(outputs) \/ i > Len(node.output) THEN irs
    ELSE LET named ==
                 IF node.name = ""
                 THEN set_friendly_name(irs, outputs[i].node, node.output[i])
                 ELSE IF common_node
                 THEN set_friendly_name(irs, outputs[i].node, node.name)
                 ELSE set_friendly_name(irs, outputs[i].node,
                                        node.name \o "_" \o node.output[i])
         IN MutNameOutputsUnbound(named, node, outputs, common_node, i + 1)

RECURSIVE NameOutputs(_, _, _, _, _)
NameOutputs(irs, node, outputs, common_node, i) ==
    IF i > Len(outputs) \/ i > Len(node.output) THEN irs
    ELSE LET named ==
                 IF node.name = ""
                 THEN set_friendly_name(irs, outputs[i].node, node.output[i])
                 ELSE IF common_node
                 THEN set_friendly_name(irs, outputs[i].node, node.name)
                 ELSE set_friendly_name(irs, outputs[i].node,
                                        node.name \o "_" \o node.output[i])
             bound == IF ~is_null(named, outputs[i])
                      THEN set_names(named, outputs[i], {node.output[i]})
                      ELSE named
         IN NameOutputs(bound, node, outputs, common_node, i + 1)

set_friendly_names(irs, node, outputs) ==
    IF node.op_type = "Identity"
    THEN NameIdentityOutputs(irs, node, outputs, 1)
    ELSE NameOutputs(irs, node, outputs, common_node_for_all_outputs(outputs), 1)

(***************************************************************************)
(* Graph::make_ng_nodes and Graph::convert_to_ngraph_nodes.                *)
(***************************************************************************)
RECURSIVE InsertOutputs(_, _, _, _)
\* the loop over the declared outputs: outputs.at(i) throws past the end
InsertOutputs(cache, node, outputs, i) ==
    IF i > Len(node.output) THEN [cache |-> cache, what |-> ""]
    ELSE IF i > Len(outputs) THEN [cache |-> cache, what |-> "vector::at"]
    ELSE InsertOutputs(emplace_node(cache, node.output[i], outputs[i]),
                       node, outputs, i + 1)

\* the exception types a conversion function throws that derive from
\* std::exception without being an OnnxNodeValidationFailure
StdExceptions == {"std::out_of_range", "ngraph_error"}

\* Yields the IR, the cache of the scope and the exception raised, if any.
make_ng_nodes(gs, s, irs, node, built) ==
    LET g == gs[s]
        none == [ir |-> irs, cache |-> g.m_cache, failure |-> NoFailure]
        got == get_ng_inputs(gs, s, node.input,
                             [ir |-> irs, inputs |-> <<>>, missing |-> ""])
        made == ConversionFunction(got.ir, node, got.inputs,
                                   ImplicitInputs(gs, built), s)
        named == set_friendly_names(made.ir, node, made.outputs)
        put == InsertOutputs(g.m_cache, node, made.outputs, 1)
    IN IF ~is_operator_available(g.m_opset, node)
       THEN [none EXCEPT !.failure =
                [type |-> "UnknownOperator", what |-> get_op_domain_and_name(node)]]
       ELSE IF got.missing # ""
       THEN [none EXCEPT !.failure =
                [type |-> "ngraph_error",
                 what |-> get_error_msg_prefix(node) \o ":\n" \o got.missing
                          \o " node not found in graph cache"]]
       ELSE IF made.thrown = "OnnxNodeValidationFailure"
       THEN [none EXCEPT !.failure = [type |-> made.thrown, what |-> made.what]]
       ELSE IF made.thrown \in StdExceptions
       THEN [none EXCEPT !.failure =
                [type |-> "ngraph_error",
                 what |-> get_error_msg_prefix(node) \o ":\n" \o made.what]]
       ELSE IF made.thrown # ""
       THEN [none EXCEPT !.failure = [type |-> made.thrown, what |-> made.what]]
       ELSE IF made.outputs = <<>> /\ node.op_type # "Identity"
       THEN [none EXCEPT !.ir = made.ir,
                         !.failure = [type |-> "out_of_range", what |-> "vector::at"]]
       ELSE IF put.what # ""
       THEN [ir |-> named, cache |-> put.cache,
             failure |-> [type |-> "out_of_range", what |-> put.what]]
       ELSE [ir |-> named, cache |-> put.cache, failure |-> NoFailure]

MutStartConvertSkipsNodes ==
    /\ Running
    /\ Top.pc = "constructed"
    /\ Top.mode = "convert"
    /\ stack' = ReplaceTop(Settle(graphs[Top.graph], [Top EXCEPT !.pc = "finalize", !.i = 1]))
    /\ UNCHANGED <<app, model, telemetry, parked, graphs, ir, status, failure, events>>

\* Graph::convert / Subgraph::convert is called
StartConvert ==
    /\ Running
    /\ Top.pc = "constructed"
    /\ Top.mode = "convert"
    /\ stack' = ReplaceTop(Settle(graphs[Top.graph], [Top EXCEPT !.pc = "nodes", !.i = 1]))
    /\ UNCHANGED <<app, model, telemetry, parked, graphs, ir, status, failure, events>>

CurrentNode == graphs[Top.graph].m_model.node[Top.i]

\* Attribute::get_subgraph: the body gets the opset imports of its parent
SubgraphProto(parent, body) ==
    [body EXCEPT !.opset_import = parent.m_model.opset_import]

\* Node::Node builds one Subgraph per graph attribute of the node
ConstructSubgraph ==
    /\ Running
    /\ Top.pc \in {"nodes", "decode_nodes"}
    /\ Len(Top.built) < Len(CurrentNode.subgraphs)
    /\ LET s == Len(graphs) + 1
           g == NewGraph(SubgraphProto(graphs[Top.graph],
                                       CurrentNode.subgraphs[Len(Top.built) + 1]),
                         Top.graph)
       IN /\ graphs' = Append(graphs, g)
          /\ stack' = Append(stack, Settle(g, [Frame(s, "initializers", 1)
                                                  EXCEPT !.mode = Top.mode]))
    /\ UNCHANGED <<app, model, telemetry, parked, ir, status, failure, events>>

\* subgraph->convert() for the next subgraph of the node
ConvertSubgraph ==
    /\ Running
    /\ Top.pc = "nodes"
    /\ Len(Top.built) = Len(CurrentNode.subgraphs)
    /\ Top.j < Len(Top.built)
    /\ LET s == Top.built[Top.j + 1]
       IN stack' = Append(stack, Settle(graphs[s], [Frame(s, "nodes", 1)
                                                      EXCEPT !.mode = Top.mode]))
    /\ UNCHANGED <<app, model, telemetry, parked, graphs, ir, status, failure, events>>

MutConvertNodeBeforeBodies ==
    /\ Running
    /\ Top.pc = "nodes"
    /\ Len(Top.built) = Len(CurrentNode.subgraphs)
    /\ Top.j = 0
    /\ LET s == Top.graph
           r == make_ng_nodes(graphs, s, ir, CurrentNode, Top.built)
       IN /\ ir' = r.ir
          /\ graphs' = [graphs EXCEPT ![s].m_cache = r.cache]
          /\ IF r.failure # NoFailure
             THEN Throw(r.failure.type, r.failure.what)
             ELSE /\ stack' = ReplaceTop(Settle(graphs[s],
                                [Top EXCEPT !.i = @ + 1, !.j = 0, !.built = <<>>]))
                  /\ UNCHANGED <<status, failure>>
    /\ UNCHANGED <<app, model, telemetry, parked, events>>

\* make_ng_nodes(node) for the node, its subgraphs converted
ConvertNode ==
    /\ Running
    /\ Top.pc = "nodes"
    /\ Len(Top.built) = Len(CurrentNode.subgraphs)
    /\ Top.j = Len(Top.built)
    /\ LET s == Top.graph
           r == make_ng_nodes(graphs, s, ir, CurrentNode, Top.built)
       IN /\ ir' = r.ir
          /\ graphs' = [graphs EXCEPT ![s].m_cache = r.cache]
          /\ IF r.failure # NoFailure
             THEN Throw(r.failure.type, r.failure.what)
             ELSE /\ stack' = ReplaceTop(Settle(graphs[s],
                                [Top EXCEPT !.i = @ + 1, !.j = 0, !.built = <<>>]))
                  /\ UNCHANGED <<status, failure>>
    /\ UNCHANGED <<app, model, telemetry, parked, events>>

(***************************************************************************)
(* Graph::decode and Graph::decode_to_framework_nodes.                     *)
(***************************************************************************)
\* FrameworkNode: element type and shape of its outputs are not known
DynamicShape == <<-1>>

\* ONNXFrameworkNode / ONNXSubgraphFrameworkNode: one node that keeps the
\* ONNX node, with the given inputs and one output per declared output
FrameworkNode(type, id, inputs, nout, s) ==
    IRNode(type, AutoName(type, id), inputs, [k \in 1..nout |-> {}],
           "dynamic", DynamicShape, <<>>, s)

RECURSIVE PushBackUnlessNamed(_, _, _)
\* the find_if / push_back loop: a borrowed value joins the inputs unless an
\* input of the same friendly name is there already
PushBackUnlessNamed(irs, inputs, borrowed) ==
    IF borrowed = <<>> THEN inputs
    ELSE LET name == irs[borrowed[1].node].friendly_name
             found == \E k \in 1..Len(inputs) : irs[inputs[k].node].friendly_name = name
         IN PushBackUnlessNamed(irs,
                                IF found THEN inputs ELSE Append(inputs, borrowed[1]),
                                Tail(borrowed))

RECURSIVE SubgraphFrameworkInputs(_, _, _, _)
\* the loop over the subgraphs of a node, each of them decoded
SubgraphFrameworkInputs(gs, irs, inputs, built) ==
    IF built = <<>> THEN inputs
    ELSE SubgraphFrameworkInputs(
            gs, irs,
            PushBackUnlessNamed(irs, inputs,
                get_inputs_from_parent(gs, built[1], gs[built[1]].m_inputs_from_parent)),
            Tail(built))

MutDecodeDispatches(gs, s, irs, node, built) == make_ng_nodes(gs, s, irs, node, built)

\* one iteration of the loop of Graph::decode_to_framework_nodes, after the
\* subgraphs of the node were decoded.  Yields the IR, the cache of the
\* scope and the exception raised, if any.
decode_to_framework_node(gs, s, irs, node, built) ==
    LET g == gs[s]
        none == [ir |-> irs, cache |-> g.m_cache, failure |-> NoFailure]
        got == get_ng_inputs(gs, s, node.input,
                             [ir |-> irs, inputs |-> <<>>, missing |-> ""])
        id == Len(got.ir) + 1
        n == Len(node.output)
        framework_node ==
            IF node.subgraphs # <<>>
            THEN FrameworkNode("ONNXSubgraphFrameworkNode", id,
                               SubgraphFrameworkInputs(gs, got.ir, got.inputs, built), n, s)
            ELSE FrameworkNode("ONNXFrameworkNode", id, got.inputs, n, s)
        ng_nodes == [k \in 1..n |-> Output(id, k - 1)]
        made == Append(got.ir, framework_node)
        named == set_friendly_names(made, node, ng_nodes)
        put == InsertOutputs(g.m_cache, node, ng_nodes, 1)
    IN IF got.missing # ""
       THEN [none EXCEPT !.failure =
                [type |-> "ngraph_error",
                 what |-> got.missing \o " node not found in graph cache"]]
       ELSE IF ng_nodes = <<>> /\ node.op_type # "Identity"
       THEN [none EXCEPT !.ir = made,
                         !.failure = [type |-> "out_of_range", what |-> "vector::at"]]
       ELSE [ir |-> named, cache |-> put.cache, failure |-> NoFailure]

\* a decode-only conversion of the model is asked for: Graph(model_proto,
\* telemetry) builds a Graph of its own beside the one converted before
DecodeModel ==
    /\ status \in {"done", "failed"}
    /\ Top.mode = "convert"
    /\ LET s == Len(graphs) + 1
           g == NewGraph(model, 0)
       IN /\ graphs' = Append(graphs, g)
          /\ stack' = <<Settle(g, [Frame(s, "initializers", 1) EXCEPT !.mode = "decode"])>>
    /\ status' = "running"
    /\ failure' = NoFailure
    /\ UNCHANGED <<app, model, telemetry, parked, ir, events>>

\* Graph::decode is called
StartDecode ==
    /\ Running
    /\ Top.pc = "constructed"
    /\ Top.mode = "decode"
    /\ stack' = ReplaceTop(Settle(graphs[Top.graph],
                                  [Top EXCEPT !.pc = "decode_nodes", !.i = 1]))
    /\ UNCHANGED <<app, model, telemetry, parked, graphs, ir, status, failure, events>>

\* subgraph->decode() for the next subgraph of the node; node.get_ng_inputs()
\* is evaluated before the first of them
DecodeSubgraph ==
    /\ Running
    /\ Top.pc = "decode_nodes"
    /\ Len(Top.built) = Len(CurrentNode.subgraphs)
    /\ Top.j < Len(Top.built)
    /\ LET s == Top.built[Top.j + 1]
           got == get_ng_inputs(graphs, Top.graph, CurrentNode.input,
                                [ir |-> ir, inputs |-> <<>>, missing |-> ""])
       IN IF Top.j = 0 /\ got.missing # ""
          THEN Throw("ngraph_error", got.missing \o " node not found in graph cache")
          ELSE /\ stack' = Append(stack, Settle(graphs[s],
                                  [Frame(s, "decode_nodes", 1) EXCEPT !.mode = "decode"]))
               /\ UNCHANGED <<status, failure>>
    /\ UNCHANGED <<app, model, telemetry, parked, graphs, ir, events>>

\* the placeholder of the node, its subgraphs decoded
DecodeNode ==
    /\ Running
    /\ Top.pc = "decode_nodes"
    /\ Len(Top.built) = Len(CurrentNode.subgraphs)
    /\ Top.j = Len(Top.built)
    /\ LET s == Top.graph
           r == decode_to_framework_node(graphs, s, ir, CurrentNode, Top.built)
       IN /\ ir' = r.ir
          /\ graphs' = [graphs EXCEPT ![s].m_cache = r.cache]
          /\ IF r.failure # NoFailure
             THEN Throw(r.failure.type, r.failure.what)
             ELSE /\ stack' = ReplaceTop(Settle(graphs[s],
                                [Top EXCEPT !.i = @ + 1, !.j = 0, !.built = <<>>]))
                  /\ UNCHANGED <<status, failure>>
    /\ UNCHANGED <<app, model, telemetry, parked, events>>

\* the decoded function is converted in full through the Graph it is
\* associated with; the decoded function stays with its holder meanwhile
ConvertDecoded ==
    /\ status = "decoded"
    /\ LET s == Top.graph
       IN /\ graphs[s].function.rt_info = s
          /\ graphs' = [graphs EXCEPT ![s].decoded = graphs[s].function]
          /\ stack' = ReplaceTop(Settle(graphs[s],
                         [Top EXCEPT !.pc = "nodes", !.i = 1, !.mode = "reconvert"]))
    /\ status' = "running"
    /\ UNCHANGED <<app, model, telemetry, parked, ir, failure, events>>

(***************************************************************************)
(* Consumers of an output: the inputs of the nodes that are still held.    *)
(***************************************************************************)
\* the nodes the Graph objects hold: cache values, parameters, results
Roots(gs) ==
    UNION {{gs[s].m_cache[n].node : n \in DOMAIN gs[s].m_cache}
           \cup Range(gs[s].m_parameters)
           \cup Range(gs[s].function.results)
           \cup Range(gs[s].decoded.results) : s \in 1..Len(gs)}

RECURSIVE Closure(_, _)
\* a node holds the nodes its inputs come from
Closure(irs, nodes) ==
    LET more == nodes \cup UNION {{irs[n].inputs[k].node : k \in 1..Len(irs[n].inputs)}
                                  : n \in nodes}
    IN IF more = nodes THEN nodes ELSE Closure(irs, more)

\* Output::get_target_inputs: the (node, input index) pairs fed by `output`
get_target_inputs(gs, irs, output) ==
    {<<n, k>> \in Closure(irs, Roots(gs)) \X (1..Len(irs)) :
        k <= Len(irs[n].inputs) /\ irs[n].inputs[k] = output}

(***************************************************************************)
(* Graph::remove_dangling_parameters.                                      *)
(***************************************************************************)
MutAnyTensorNameMatchesOnnxOutput(irs, param_output, graph) == FALSE

\* the lambda any_tensor_name_matches_onnx_output
any_tensor_name_matches_onnx_output(irs, param_output, graph) ==
    \E tensor_name \in get_names(irs, param_output) :
        \E k \in 1..Len(graph.output) : tensor_name = graph.output[k].name

\* whether the loop erases the parameter at position `k`
IsDangling(gs, s, irs, k) ==
    LET output == Output(gs[s].m_parameters[k], 0)
    IN /\ get_target_inputs(gs, irs, output) = {}
       /\ ~any_tensor_name_matches_onnx_output(irs, output, gs[s].m_model)

\* one iteration of the loop over m_parameters, `k` the position of param_it
remove_dangling_parameters(gs, s, irs, k) ==
    IF IsDangling(gs, s, irs, k)
    THEN [gs EXCEPT
            ![s].m_cache = remove_node(@, irs[gs[s].m_parameters[k]].friendly_name),
            ![s].m_parameters = SubSeq(@, 1, k - 1) \o SubSeq(@, k + 1, Len(@))]
    ELSE gs

\* Graph::convert: remove_dangling_parameters, one parameter per step; the
\* iterator stays in place when it erased its parameter
RemoveDanglingParameters ==
    /\ Running
    /\ Top.pc = "finalize"
    /\ graphs[Top.graph].m_parent_graph = 0
    /\ graphs' = remove_dangling_parameters(graphs, Top.graph, ir, Top.i)
    /\ stack' = ReplaceTop(Settle(graphs'[Top.graph],
                    IF Len(graphs'[Top.graph].m_parameters)
                        < Len(graphs[Top.graph].m_parameters)
                    THEN Top ELSE [Top EXCEPT !.i = @ + 1]))
    /\ UNCHANGED <<app, model, telemetry, parked, ir, status, failure, events>>

(***************************************************************************)
(* Subgraph: lifting the values borrowed from the parent scope.            *)
(***************************************************************************)
MutReplaceInputCachedInParent(st, s, in_name, from_parent_node, target, input_index) ==
    LET id == Len(st.ir) + 1
        new_param == IRNode("Parameter", AutoName("Parameter", id), <<>>, <<{}>>,
                            st.ir[from_parent_node.node].element_type,
                            st.ir[from_parent_node.node].shape, <<>>, s)
    IN [st EXCEPT
          !.ir = [Append(@, new_param) EXCEPT
                    ![target].inputs[input_index + 1] = Output(id, 0)],
          !.gs[s].m_parameter_to_parent_node_map =
              [q \in DOMAIN @ \cup {id} |-> IF q = id THEN in_name ELSE @[q]],
          !.gs[st.gs[s].m_parent_graph].m_cache = emplace_node(@, in_name, Output(id, 0)),
          !.gs[s].m_parameters = Append(@, id),
          !.gs[s].m_inputs_from_parent = Append(@, in_name)]

\* the record of one call of replace_input_from_parent_scope_with_parameter:
\* its arguments, and the Graph objects and the IR before and after it
LiftCall(s, in_name, from_parent_node, target, input_index, before, after) ==
    [scope |-> s, in_name |-> in_name, from_parent_node |-> from_parent_node,
     target |-> target, input_index |-> input_index,
     before |-> [gs |-> before.gs, ir |-> before.ir],
     after |-> [gs |-> after.gs, ir |-> after.ir]]

\* Subgraph::replace_input_from_parent_scope_with_parameter; `st` holds the
\* Graph objects and the IR, `target` and `input_index` name the input edge;
\* `calls` keeps the record of the calls made
replace_input_from_parent_scope_with_parameter(st, s, in_name, from_parent_node, target, input_index) ==
    LET id == Len(st.ir) + 1
        new_param == IRNode("Parameter", AutoName("Parameter", id), <<>>, <<{}>>,
                            st.ir[from_parent_node.node].element_type,
                            st.ir[from_parent_node.node].shape, <<>>, s)
        after == [st EXCEPT
          !.ir = [Append(@, new_param) EXCEPT
                    ![target].inputs[input_index + 1] = Output(id, 0)],
          !.gs[s].m_parameter_to_parent_node_map =
              [q \in DOMAIN @ \cup {id} |-> IF q = id THEN in_name ELSE @[q]],
          !.gs[s].m_cache = emplace_node(@, in_name, Output(id, 0)),
          !.gs[s].m_parameters = Append(@, id),
          !.gs[s].m_inputs_from_parent = Append(@, in_name)]
    IN [after EXCEPT !.calls = Append(@, LiftCall(s, in_name, from_parent_node,
                                                  target, input_index, st, after))]

RECURSIVE LiftExplicitOutputs(_, _, _, _, _, _)
\* the loop over node_proto.output() for one borrowed input name;
\* Node::input(index) throws when the node has no such input
LiftExplicitOutputs(st, s, node_proto, in_name, input_index, b) ==
    IF st.what # "" \/ b > Len(node_proto.output) THEN st
    ELSE LET out_name == node_proto.output[b]
             cache == st.gs[s].m_cache
             from_parent_node ==
                 get_ng_node_from_cache(st.gs, st.gs[s].m_parent_graph, in_name)
             target == get_node(cache, out_name).node
         IN IF ~contains(cache, out_name)
            THEN LiftExplicitOutputs(st, s, node_proto, in_name, input_index, b + 1)
            ELSE IF input_index >= Len(st.ir[target].inputs)
            THEN [st EXCEPT !.what = "node input index is out of range"]
            ELSE LiftExplicitOutputs(
                    replace_input_from_parent_scope_with_parameter(
                        st, s, in_name, from_parent_node, target, input_index),
                    s, node_proto, in_name, input_index, b + 1)

RECURSIVE LiftExplicitInputs(_, _, _, _)
\* the loop over node_proto.input(); constants of the parent are skipped
LiftExplicitInputs(st, s, node_proto, a) ==
    IF st.what # "" \/ a > Len(node_proto.input) THEN st
    ELSE LET in_name == node_proto.input[a]
             parent == st.gs[s].m_parent_graph
         IN IF /\ is_ng_node_in_cache(st.gs, parent, in_name)
               /\ ~is_constant(st.ir, get_ng_node_from_cache(st.gs, parent, in_name).node)
            THEN LiftExplicitInputs(
                    LiftExplicitOutputs(st, s, node_proto, in_name, a - 1, 1),
                    s, node_proto, a + 1)
            ELSE LiftExplicitInputs(st, s, node_proto, a + 1)

RECURSIVE LiftImplicitInputs(_, _, _, _, _)
\* the loop over the input values of a node that owns subgraphs
LiftImplicitInputs(st, s, target, inputs, i) ==
    IF i > Len(inputs) THEN st
    ELSE LET input_node == inputs[i].node
             in_name == st.ir[input_node].friendly_name
             parent == st.gs[s].m_parent_graph
         IN IF is_constant(st.ir, input_node)
            THEN LiftImplicitInputs(st, s, target, inputs, i + 1)
            ELSE IF is_ng_node_in_cache(st.gs, parent, in_name)
            THEN LiftImplicitInputs(
                    replace_input_from_parent_scope_with_parameter(
                        st, s, in_name, get_ng_node_from_cache(st.gs, parent, in_name),
                        target, i - 1),
                    s, target, inputs, i + 1)
            ELSE LiftImplicitInputs(st, s, target, inputs, i + 1)

RECURSIVE LiftImplicitOutputs(_, _, _, _)
\* the second loop over node_proto.output()
LiftImplicitOutputs(st, s, node_proto, b) ==
    IF st.what # "" \/ b > Len(node_proto.output) THEN st
    ELSE LET out_name == node_proto.output[b]
             cache == st.gs[s].m_cache
             target == get_node(cache, out_name).node
         IN IF ~contains(cache, out_name)
            THEN LiftImplicitOutputs(st, s, node_proto, b + 1)
            ELSE IF st.ir[target].type \notin {"MultiSubGraphOp", "ONNXSubgraphFrameworkNode"}
            THEN LiftImplicitOutputs(st, s, node_proto, b + 1)
            ELSE LiftImplicitOutputs(
                    LiftImplicitInputs(st, s, target, st.ir[target].inputs, 1),
                    s, node_proto, b + 1)

RECURSIVE find_inputs_from_parent(_, _, _)
\* Subgraph::find_inputs_from_parent, `n` the position in the node list
find_inputs_from_parent(st, s, n) ==
    IF st.what # "" \/ n > Len(st.gs[s].m_model.node) THEN st
    ELSE LET node_proto == st.gs[s].m_model.node[n]
         IN find_inputs_from_parent(
                LiftImplicitOutputs(LiftExplicitInputs(st, s, node_proto, 1),
                                    s, node_proto, 1),
                s, n + 1)

\* a Subgraph::convert that removes a dangling first parameter as
\* Graph::convert does
MutFindInputsFromParentPrunes ==
    /\ Running
    /\ Top.pc = "finalize"
    /\ graphs[Top.graph].m_parent_graph # 0
    /\ LET st == find_inputs_from_parent([gs |-> graphs, ir |-> ir, what |-> "", calls |-> <<>>],
                                         Top.graph, 1)
       IN /\ graphs' = IF st.gs[Top.graph].m_parameters = <<>> THEN st.gs
                       ELSE remove_dangling_parameters(st.gs, Top.graph, st.ir, 1)
          /\ ir' = st.ir
          /\ IF st.what # ""
             THEN Throw("out_of_range", st.what)
             ELSE /\ stack' = ReplaceTop([Top EXCEPT !.pc = "create_function"])
                  /\ UNCHANGED <<status, failure>>
    /\ UNCHANGED <<app, model, telemetry, parked, events>>

FindInputsFromParent ==
    /\ Running
    /\ Top.pc = "finalize"
    /\ graphs[Top.graph].m_parent_graph # 0
    /\ LET st == find_inputs_from_parent([gs |-> graphs, ir |-> ir, what |-> "", calls |-> <<>>],
                                         Top.graph, 1)
       IN /\ graphs' = st.gs
          /\ ir' = st.ir
          /\ IF st.what # ""
             THEN Throw("out_of_range", st.what)
             ELSE /\ stack' = ReplaceTop([Top EXCEPT !.pc = "create_function"])
                  /\ UNCHANGED <<status, failure>>
    /\ UNCHANGED <<app, model, telemetry, parked, events>>

\* Subgraph::infer_inputs_from_parent that leaves the shapes as they are
MutInferInputsKeepsShape(gs, s, irs) ==
    LET map == gs[s].m_parameter_to_parent_node_map
    IN [n \in 1..Len(irs) |->
          IF n \in DOMAIN map
          THEN LET node == get_ng_node_from_cache(gs, gs[s].m_parent_graph, map[n])
               IN [irs[n] EXCEPT !.element_type = irs[node.node].element_type]
          ELSE irs[n]]

\* Subgraph::infer_inputs_from_parent: every lifted parameter takes the
\* element type and shape of what its name is bound to in the parent
infer_inputs_from_parent(gs, s, irs) ==
    LET map == gs[s].m_parameter_to_parent_node_map
    IN [n \in 1..Len(irs) |->
          IF n \in DOMAIN map
          THEN LET node == get_ng_node_from_cache(gs, gs[s].m_parent_graph, map[n])
               IN [irs[n] EXCEPT !.element_type = irs[node.node].element_type,
                                 !.shape = irs[node.node].shape]
          ELSE irs[n]]

\* the node that owns converted subgraphs refreshes the parameters of one
InferInputsFromParent ==
    /\ Running
    /\ Top.pc = "nodes"
    /\ Top.j = Len(Top.built)
    /\ \E s \in Range(Top.built) :
          /\ graphs[s].function.built
          /\ ir' = infer_inputs_from_parent(graphs, s, ir)
    /\ UNCHANGED <<app, model, telemetry, parked, graphs, stack, status, failure, events>>

(***************************************************************************)
(* Graph::create_function.                                                 *)
(***************************************************************************)
RECURSIVE MutGetNgOutputsKeepsNull(_, _, _, _)
MutGetNgOutputsKeepsNull(gs, s, irs, k) ==
    IF k > Len(gs[s].m_model.output) THEN [results |-> <<>>, missing |-> ""]
    ELSE LET name == gs[s].m_model.output[k].name
             rest == MutGetNgOutputsKeepsNull(gs, s, irs, k + 1)
         IN IF ~is_ng_node_in_cache(gs, s, name)
            THEN [results |-> <<>>, missing |-> name]
            ELSE [rest EXCEPT !.results = <<get_ng_node_from_cache(gs, s, name)>> \o @]

RECURSIVE get_ng_outputs(_, _, _, _)
\* Graph::get_ng_outputs: the cache values of the declared outputs, null
\* outputs skipped; `missing` names a declared output that is not resolvable
get_ng_outputs(gs, s, irs, k) ==
    IF k > Len(gs[s].m_model.output) THEN [results |-> <<>>, missing |-> ""]
    ELSE LET name == gs[s].m_model.output[k].name
             rest == get_ng_outputs(gs, s, irs, k + 1)
             ng_output == get_ng_node_from_cache(gs, s, name)
         IN IF ~is_ng_node_in_cache(gs, s, name)
            THEN [results |-> <<>>, missing |-> name]
            ELSE IF is_null(irs, ng_output) THEN rest
            ELSE [rest EXCEPT !.results = <<ng_output>> \o @]

\* detail::generate_result_name
generate_result_name(onnx_output_name, source_output) ==
    onnx_output_name \o "/sink_port_" \o ToString(source_output.index)

CreateFunction ==
    /\ Running
    /\ Top.pc = "create_function"
    /\ LET s == Top.graph
           g == graphs[s]
           outs == get_ng_outputs(graphs, s, ir, 1)
           first == Len(ir)
           results == [k \in 1..Len(outs.results) |->
                         IRNode("Result",
                                generate_result_name(g.m_model.output[k].name,
                                                     outs.results[k]),
                                <<outs.results[k]>>, <<{}>>, "float", <<1>>, <<>>, s)]
       IN IF outs.missing # ""
          THEN /\ Throw("ngraph_error", outs.missing \o " node not found in graph cache")
               /\ UNCHANGED <<graphs, ir>>
          ELSE /\ ir' = ir \o results
               /\ graphs' = [graphs EXCEPT ![s].function =
                                [built |-> TRUE,
                                 results |-> [k \in 1..Len(results) |-> first + k],
                                 parameters |-> g.m_parameters,
                                 rt_info |-> IF Top.mode = "decode" THEN s ELSE 0]]
               /\ failure' = failure
               /\ IF g.m_parent_graph = 0
                  THEN /\ status' = IF Top.mode = "decode" THEN "decoded" ELSE "done"
                       /\ stack' = ReplaceTop([Top EXCEPT !.pc = status'])
                  ELSE /\ status' = status
                       /\ stack' = [Pop EXCEPT ![Len(stack) - 1].j = @ + 1]
    /\ UNCHANGED <<app, model, telemetry, parked, events>>

(***************************************************************************)
(* The models converted.  Each family varies the part of a model that one  *)
(* stage of the importer reads and keeps the rest small.                   *)
(***************************************************************************)
OkTensor(name) == TensorProto(name, TRUE, <<2>>, <<1, 2>>, "none")

\* fewer elements than its shape asks for
BadTensor(name) == TensorProto(name, TRUE, <<2>>, <<1>>, "none")

\* its external data file cannot be found
ExternalTensor(name) == TensorProto(name, TRUE, <<2>>, <<>>, "missing")

UnnamedTensor == TensorProto("", FALSE, <<2>>, <<1, 2>>, "none")

Simple(op_type, input, output) == NodeProto("", "", op_type, input, output, <<>>)

ValueInfos(names) == [k \in 1..Len(names) |-> ValueInfoProto(names[k])]

OutputNames == <<"o1", "o2", "o3", "o4">>

FirstOutputs(n) == SubSeq(OutputNames, 1, n)

\* initializers of every kind, in every order
InitializerModels ==
    {ModelProto(ini, ValueInfos(<<"a", "k">>), <<Simple("Add", <<"a">>, <<"y">>)>>,
                ValueInfos(<<"y">>), {}) :
        ini \in SeqsUpTo({OkTensor("k"), BadTensor("k"), ExternalTensor("k"),
                          OkTensor("b"), BadTensor("b"), UnnamedTensor},
                         MaxInitializers)}

\* (domain, operator type) pairs: available, unknown to the default domain,
\* available once custom.ops is enabled, unknown to custom.ops, unknown domain
OperatorKinds ==
    {<<"", "Add">>, <<"", "Bar">>, <<"custom.ops", "Foo">>, <<"custom.ops", "Bar">>,
     <<"unknown.dom", "Foo">>}

OperatorModels ==
    {ModelProto(<<>>, ValueInfos(<<"a">>),
                [k \in 1..Len(kinds) |->
                    NodeProto("", kinds[k][1], kinds[k][2], <<"a">>,
                              <<OutputNames[k]>>, <<>>)],
                ValueInfos(<<"o1">>), imports) :
        kinds \in SeqsFromTo(OperatorKinds, 1, MaxNodes),
        imports \in {{}, {"custom.ops"}}}

\* inputs consumed or not, declared as outputs or not, shadowed or not;
\* node outputs that reuse a name
PruneModels ==
    {ModelProto(ini, ValueInfos(inp), nds, ValueInfos(out), {}) :
        ini \in {<<>>, <<OkTensor("b")>>},
        inp \in {<<"a">>, <<"a", "b">>, <<"b", "a">>},
        nds \in SeqsUpTo({Simple("Add", <<"a">>, <<"y">>),
                          Simple("Identity", <<"a">>, <<"y">>),
                          Simple("Dropout", <<"a">>, <<"y">>),
                          Simple("Add", <<"b">>, <<"a">>)}, MaxNodes),
        out \in {<<>>, <<"y">>, <<"a">>, <<"b", "y">>}}

\* the body of a control-flow node: its output is the first output of its
\* last node
Body(nodes) ==
    ModelProto(<<>>, ValueInfos(<<"i">>), nodes,
               ValueInfos(<<Last(nodes).output[1]>>), {})

\* bodies nested in a body: they borrow x from the grandparent or i from
\* the parent
InnerBodies == {Body(<<Simple("Add", <<v>>, <<"q">>)>>) : v \in {"x", "i"}}

\* nodes of a body.  In the enclosing scope a is a Parameter, k a Constant
\* and x the output of a node; i is the input of the body.
BodyKinds ==
    {Simple("Add", <<v>>, <<"o1">>) : v \in {"x", "k", "i"}}
    \cup {Simple("Identity", <<v>>, <<"o1">>) : v \in {"x", "a"}}
    \cup {Simple("Add", <<"o1">>, <<"o2">>)}
    \cup {Simple("Split", <<"x">>, FirstOutputs(n)) : n \in 1..MaxOutputs}
    \cup {Simple("GRU", <<"a", "x">>, FirstOutputs(n)) : n \in 1..MaxOutputs}
    \cup {NodeProto("", "", "Loop", <<>>, <<"o1">>, <<inner>>) : inner \in InnerBodies}

NestedModels ==
    {ModelProto(<<OkTensor("k")>>, ValueInfos(<<"a">>),
                <<Simple("Add", <<"a">>, <<"x">>),
                  NodeProto("", "", "Loop", <<"a">>, <<"r">>, <<Body(nodes)>>)>>,
                ValueInfos(<<"r">>), {}) :
        nodes \in SeqsFromTo(BodyKinds, 1, MaxNodes)}

\* the output lists of a node: every output named, or optional outputs that
\* the model does not use left with an empty name
OutputLists ==
    {FirstOutputs(n) : n \in 1..MaxOutputs} \cup {<<"", "o2">>, <<"", "", "o3">>}

\* nodes with and without a declared name, whose outputs come from one IR
\* node, from one IR node each, or from the inputs
NamedKinds ==
    {NodeProto(name, "", op, <<"a">>, outs, <<>>) :
        name \in {"", "N"}, op \in {"Split", "GRU", "Dropout"}, outs \in OutputLists}
    \cup {NodeProto(name, "", op, <<"a">>, <<"o1">>, <<>>) :
            name \in {"", "N"}, op \in {"Add", "Identity"}}

\* a node that passes on or consumes the last output of the node before it
FollowerKinds(v) ==
    {NodeProto(name, "", op, <<v>>, <<"z">>, <<>>) :
        name \in {"", "M"}, op \in {"Identity", "Dropout", "Add"}}

NamingModels ==
    {ModelProto(<<>>, ValueInfos(<<"a">>), <<first>>,
                ValueInfos(<<Last(first.output)>>), {}) : first \in NamedKinds}
    \cup UNION {{ModelProto(<<>>, ValueInfos(<<"a">>), <<first, second>>,
                            ValueInfos(<<Last(first.output), "z">>), {}) :
                    second \in FollowerKinds(Last(first.output))} :
                 first \in NamedKinds}

\* declared outputs bound to the marker of an absent optional value, declared
\* inputs that repeat a name
AbsentOutputModels ==
    {ModelProto(<<OkTensor("k")>>, ValueInfos(inp),
                <<Simple("Identity", <<"">>, <<"n">>), Simple("Add", <<"a">>, <<"y">>)>>,
                ValueInfos(out), {}) :
        inp \in {<<"a">>, <<"a", "a">>, <<"k", "a", "c">>},
        out \in {<<"n">>, <<"n", "y">>, <<"y", "n">>, <<"y", "n", "a">>, <<"k", "y">>}}

\* nodes whose conversion fails: by its own validation, by a foreign
\* exception, by a standard exception, by an input that nothing binds, by
\* declaring more outputs than are produced; nodes that convert, one of
\* them producing more outputs than it declares
FailingKinds ==
    {NodeProto("N", "", "Checked", <<"a">>, <<"p">>, <<>>),
     NodeProto("", "", "Foreign", <<"a">>, <<"p">>, <<>>),
     NodeProto("N", "", "Dropout", <<>>, <<"p">>, <<>>),
     NodeProto("", "", "Dropout", <<>>, <<"p">>, <<>>),
     NodeProto("N", "", "Add", <<"u">>, <<"p">>, <<>>),
     NodeProto("N", "", "Add", <<"a">>, <<"p", "q">>, <<>>),
     NodeProto("", "", "Add", <<"a">>, <<"p">>, <<>>),
     NodeProto("N", "", "TopK", <<"a">>, <<"p">>, <<>>)}

FailingModels ==
    {ModelProto(<<>>, ValueInfos(<<"a">>), nodes, ValueInfos(<<"p">>), {}) :
        nodes \in SeqsFromTo(FailingKinds, 1, MaxNodes)}

\* a body whose Loop node has a body that borrows x from the top-level scope,
\* where the node that makes x has a declared name: one that is no name of a
\* value, or the name of the initializer k
ProducerModels ==
    {ModelProto(<<OkTensor("k")>>, ValueInfos(<<"a">>),
                <<NodeProto(name, "", "Add", <<"a">>, <<"x">>, <<>>),
                  NodeProto("", "", "Loop", <<"a">>, <<"r">>,
                            <<Body(<<NodeProto("", "", "Loop", <<>>, <<"o1">>,
                                               <<Body(<<Simple("Add", <<"x">>, <<"q">>)>>)>>)>>)>>)>>,
                ValueInfos(<<"r">>), {}) :
        name \in {"N", "k"}}

Models ==
    InitializerModels \cup OperatorModels \cup PruneModels \cup NestedModels
    \cup NamingModels \cup AbsentOutputModels \cup FailingModels \cup ProducerModels

(***************************************************************************)
(* The benchmark application (samples/cpp/benchmark_app/main.cpp): main as  *)
(* a sequence of stages, each announced by next_step, and the measurement  *)
(* loop.                                                                   *)
(***************************************************************************)
\* the largest value of an unsigned counter: uint32_t is followed with four
\* bits, so that a limit near the largest value is within reach; size_t has
\* twice the bits and none of its sums here exceeds them
UintMax == 2^4 - 1

\* assignment to a uint32_t
ToUint32(n) == n % (UintMax + 1)

\* next_step: the titles of the steps, by step id
step_names ==
    <<"Parsing and validating input arguments",
      "Loading Inference Engine",
      "Setting device configuration",
      "Reading network files",
      "Resizing network to match image sizes and given batch",
      "Configuring input of the model",
      "Loading the model to the device",
      "Setting optimal runtime parameters",
      "Creating infer requests and preparing input blobs with data",
      "Measuring performance",
      "Dumping statistics report">>

\* the flags of a run and the locals of main before its first statement;
\* `valid` is whether ParseAndCheckCommandLine accepts the flags
AppStart(help, valid, load_from_file, compiled, api, niter, t, nireq) ==
    [pc |-> "main",
     FLAGS_help |-> help, valid |-> valid,
     FLAGS_load_from_file |-> load_from_file, isNetworkCompiled |-> compiled,
     FLAGS_api |-> api, FLAGS_niter |-> niter, FLAGS_t |-> t, FLAGS_nireq |-> nireq,
     step_id |-> 0, announced |-> <<>>, stage |-> 0, thrown |-> FALSE,
     isDynamicNetwork |-> FALSE, shape_groups_num |-> 0,
     nireq |-> 0, niter |-> 0, duration_seconds |-> 0,
     iteration |-> 0, expired |-> FALSE, total_iterations |-> 0, result |-> -1]

\* no benchmark is running
NotStarted == [AppStart(FALSE, TRUE, FALSE, FALSE, "sync", 0, 0, 0) EXCEPT !.pc = "none"]

\* next_step(): the static counter is advanced and the title of the new id is
\* printed, or the id has no title and an exception is thrown; `stage` is the
\* numbered section of main that makes the call
next_step(a, stage) ==
    LET id == a.step_id + 1
    IN IF id \notin DOMAIN step_names
       THEN [a EXCEPT !.step_id = id, !.stage = stage, !.thrown = TRUE]
       ELSE [a EXCEPT !.step_id = id, !.stage = stage,
                      !.announced = Append(@, [step_id |-> id, title |-> step_names[id],
                                               stage |-> stage])]

\* the catch block of main: the error is logged and main returns 3
Caught(a) == [a EXCEPT !.pc = "returned", !.result = 3, !.thrown = TRUE]

\* main goes on at `pc` unless the stage threw
Proceed(a, pc) == IF a.thrown THEN Caught(a) ELSE [a EXCEPT !.pc = pc]

\* 1. Parsing and validating input arguments
ParseArguments ==
    /\ app.pc = "main"
    /\ LET a == next_step(app, 1)
       IN app' = IF a.thrown THEN Caught(a)
                 ELSE IF a.FLAGS_help THEN [a EXCEPT !.pc = "returned", !.result = 0]
                 ELSE IF ~a.valid THEN Caught(a)
                 ELSE [a EXCEPT !.pc = "engine"]
    /\ UNCHANGED <<model, telemetry, graphs, ir, stack, status, failure, events, parked>>

\* 2. Loading the Inference Engine
LoadEngine ==
    /\ app.pc = "engine"
    /\ app' = Proceed(next_step(app, 2), "device")
    /\ UNCHANGED <<model, telemetry, graphs, ir, stack, status, failure, events, parked>>

\* 3. Setting device configuration; at its end main takes one of the three
\* ways of loading the model
SetDeviceConfiguration ==
    /\ app.pc = "device"
    /\ app' = Proceed(next_step(app, 3),
                      IF app.FLAGS_load_from_file /\ ~app.isNetworkCompiled THEN "from_file"
                      ELSE IF ~app.isNetworkCompiled THEN "read"
                      ELSE "import")
    /\ UNCHANGED <<model, telemetry, graphs, ir, stack, status, failure, events, parked>>

\* -load_from_file: steps 4, 5 and 6 are announced as skipped and the device
\* loads the model file
LoadNetworkFromFile ==
    /\ app.pc = "from_file"
    /\ \E groups \in 1..MaxGroups :
          LET a == next_step(next_step(next_step(app, 4), 5), 6)
          IN app' = Proceed([a EXCEPT !.stage = 7, !.shape_groups_num = groups], "runtime")
    /\ UNCHANGED <<model, telemetry, graphs, ir, stack, status, failure, events, parked>>

\* 4. Reading the network; a network without inputs is refused
ReadNetwork ==
    /\ app.pc = "read"
    /\ \E empty \in BOOLEAN :
          app' = IF empty THEN Caught(next_step(app, 4))
                 ELSE Proceed(next_step(app, 4), "resize")
    /\ UNCHANGED <<model, telemetry, graphs, ir, stack, status, failure, events, parked>>

\* 5. Resizing the network: the groups of data shapes and whether the
\* network is dynamic are known from here on
ResizeNetwork ==
    /\ app.pc = "resize"
    /\ \E groups \in 1..MaxGroups, dynamic \in BOOLEAN :
          app' = Proceed([next_step(app, 5) EXCEPT !.shape_groups_num = groups,
                                                   !.isDynamicNetwork = dynamic],
                         "configure")
    /\ UNCHANGED <<model, telemetry, graphs, ir, stack, status, failure, events, parked>>

\* 6. Configuring inputs and outputs
ConfigureInputs ==
    /\ app.pc = "configure"
    /\ app' = Proceed(next_step(app, 6), "load")
    /\ UNCHANGED <<model, telemetry, graphs, ir, stack, status, failure, events, parked>>

\* 7. Loading the model to the device
LoadModelToDevice ==
    /\ app.pc = "load"
    /\ app' = Proceed(next_step(app, 7), "runtime")
    /\ UNCHANGED <<model, telemetry, graphs, ir, stack, status, failure, events, parked>>

\* a compiled blob: steps 4, 5 and 6 are announced as skipped, then
\* 7. the blob is imported
ImportNetwork ==
    /\ app.pc = "import"
    /\ \E groups \in 1..MaxGroups :
          LET a == next_step(next_step(next_step(next_step(app, 4), 5), 6), 7)
          IN app' = Proceed([a EXCEPT !.shape_groups_num = groups], "runtime")
    /\ UNCHANGED <<model, telemetry, graphs, ir, stack, status, failure, events, parked>>

\* the iteration limit of main: in async mode a limit is aligned to the
\* groups of data shapes (size_t arithmetic) or to the requests (uint32_t
\* arithmetic)
AlignedNiter(FLAGS_niter, FLAGS_api, shape_groups_num, nireq) ==
    IF FLAGS_niter > 0 /\ FLAGS_api = "async"
    THEN IF shape_groups_num > nireq
         THEN ToUint32(((FLAGS_niter + shape_groups_num - 1) \div shape_groups_num)
                       * shape_groups_num)
         ELSE ToUint32((ToUint32(FLAGS_niter + nireq - 1) \div nireq) * nireq)
    ELSE FLAGS_niter

\* the time limit of main: -t, or the default of the device when neither a
\* time limit nor an iteration limit is given
TimeLimit(FLAGS_t, FLAGS_niter) ==
    IF FLAGS_t # 0 THEN FLAGS_t ELSE IF FLAGS_niter = 0 THEN 1 ELSE 0

\* 8. Querying optimal runtime parameters, after the checks on dynamic
\* networks; then the number of requests (asked of the device when -nireq is
\* not given), the iteration limit and the time limit
QueryRuntimeParameters ==
    /\ app.pc = "runtime"
    /\ IF app.isDynamicNetwork /\ app.FLAGS_api = "sync"
       THEN app' = Caught(app)
       ELSE \E optimal \in 1..MaxNireq :
               LET a == next_step(app, 8)
                   nireq == IF a.FLAGS_nireq # 0 THEN a.FLAGS_nireq
                            ELSE IF a.FLAGS_api = "sync" THEN 1 ELSE optimal
               IN app' = Proceed([a EXCEPT
                             !.nireq = nireq,
                             !.niter = AlignedNiter(a.FLAGS_niter, a.FLAGS_api,
                                                    a.shape_groups_num, nireq),
                             !.duration_seconds = TimeLimit(a.FLAGS_t, a.FLAGS_niter)],
                           "requests")
    /\ UNCHANGED <<model, telemetry, graphs, ir, stack, status, failure, events, parked>>

\* 9. Creating infer requests and filling input blobs
CreateInferRequests ==
    /\ app.pc = "requests"
    /\ app' = Proceed(next_step(app, 9), "measure")
    /\ UNCHANGED <<model, telemetry, graphs, ir, stack, status, failure, events, parked>>

\* 10. Measuring performance: the first inference, outside the measurement
StartMeasuring ==
    /\ app.pc = "measure"
    /\ app' = Proceed([next_step(app, 10) EXCEPT !.iteration = 0, !.expired = FALSE], "loop")
    /\ UNCHANGED <<model, telemetry, graphs, ir, stack, status, failure, events, parked>>

\* the condition of the measurement loop
LoopContinues(a) ==
    \/ a.niter # 0 /\ a.iteration < a.niter
    \/ a.duration_seconds # 0 /\ ~a.expired
    \/ a.FLAGS_api = "async" /\ a.iteration % a.nireq # 0

\* one pass of the measurement loop: a request is started and the time that
\* has passed is read again
Infer ==
    /\ app.pc = "loop"
    /\ LoopContinues(app)
    /\ app.iteration < MaxIteration
    /\ \E expired \in {app.expired, app.duration_seconds # 0} :
          app' = [app EXCEPT !.iteration = @ + 1, !.expired = expired]
    /\ UNCHANGED <<model, telemetry, graphs, ir, stack, status, failure, events, parked>>

\* the loop is left: the total number of iterations goes to the statistics
\* and 11. Dumping statistics report begins
FinishMeasuring ==
    /\ app.pc = "loop"
    /\ ~LoopContinues(app)
    /\ app' = Proceed(next_step([app EXCEPT !.total_iterations = app.iteration], 11), "dump")
    /\ UNCHANGED <<model, telemetry, graphs, ir, stack, status, failure, events, parked>>

\* the report is written and main returns 0
DumpStatistics ==
    /\ app.pc = "dump"
    /\ app' = [app EXCEPT !.pc = "returned", !.result = 0]
    /\ UNCHANGED <<model, telemetry, graphs, ir, stack, status, failure, events, parked>>

\* the command lines followed: every way of loading with every limit, and
\* one command line each that asks for help or is refused
AppInputs ==
    {AppStart(FALSE, TRUE, load_from_file, compiled, api, niter, t, nireq) :
        load_from_file \in BOOLEAN, compiled \in BOOLEAN, api \in {"sync", "async"},
        niter \in 0..MaxNiter \cup {UintMax}, t \in {0, 1}, nireq \in 0..MaxNireq}
    \cup {AppStart(TRUE, TRUE, FALSE, FALSE, "async", 0, 0, 0),
          AppStart(FALSE, FALSE, FALSE, FALSE, "async", 0, 0, 0)}

\* a run of the benchmark application; no model is being imported
InitApp ==
    /\ app \in AppInputs
    /\ model = ModelProto(<<>>, <<>>, <<>>, <<>>, {})
    /\ telemetry = FALSE
    /\ graphs = <<>>
    /\ ir = <<>>
    /\ stack = <<>>
    /\ status = "running"
    /\ failure = NoFailure
    /\ parked = Alone
    /\ events = <<>>

NextApp ==
    \/ ParseArguments
    \/ LoadEngine
    \/ SetDeviceConfiguration
    \/ LoadNetworkFromFile
    \/ ReadNetwork
    \/ ResizeNetwork
    \/ ConfigureInputs
    \/ LoadModelToDevice
    \/ ImportNetwork
    \/ QueryRuntimeParameters
    \/ CreateInferRequests
    \/ StartMeasuring
    \/ Infer
    \/ FinishMeasuring
    \/ DumpStatistics

SpecApp == InitApp /\ [][NextApp]_vars

\* the requests complete and main is scheduled: every stage that can run
\* does
SpecAppFair == SpecApp /\ WF_vars(NextApp)

(***************************************************************************)
(* The conversion of one model: Graph(model_proto, telemetry), convert().  *)
(***************************************************************************)
Init ==
    /\ model \in Models
    /\ telemetry \in (IF model \in OperatorModels THEN BOOLEAN ELSE {TRUE})
    /\ graphs = <<NewGraph(model, 0)>>
    /\ ir = <<>>
    /\ stack = <<Settle(NewGraph(model, 0), Frame(1, "initializers", 1))>>
    /\ status = "running"
    /\ failure = NoFailure
    /\ parked = Alone
    /\ events = <<>>
    /\ app = NotStarted

Next ==
    \/ ProcessInitializer
    \/ ProcessInput
    \/ VerifyOperators
    \/ StartConvert
    \/ ConstructSubgraph
    \/ ConvertSubgraph
    \/ ConvertNode
    \/ RemoveDanglingParameters
    \/ FindInputsFromParent
    \/ InferInputsFromParent
    \/ CreateFunction

Spec == Init /\ [][Next]_vars

\* the model is converted in full, then decoded by a Graph of its own, and
\* the decoded function is converted in full
NextDecode ==
    \/ Next
    \/ DecodeModel
    \/ StartDecode
    \/ DecodeSubgraph
    \/ DecodeNode
    \/ ConvertDecoded

SpecDecode == Init /\ [][NextDecode]_vars

\* the models converted side by side: one node, an initializer that shadows
\* an input, a body that borrows from its parent, a domain enabled on
\* demand, an input that nothing binds
PairModels ==
    {ModelProto(<<>>, ValueInfos(<<"a">>), <<Simple("Add", <<"a">>, <<"y">>)>>,
                ValueInfos(<<"y">>), {}),
     ModelProto(<<OkTensor("b")>>, ValueInfos(<<"a", "b">>),
                <<Simple("Add", <<"b">>, <<"a">>)>>, ValueInfos(<<"a">>), {}),
     ModelProto(<<OkTensor("k")>>, ValueInfos(<<"a">>),
                <<Simple("Add", <<"a">>, <<"x">>),
                  NodeProto("", "", "Loop", <<"a">>, <<"r">>,
                            <<Body(<<Simple("Add", <<"x">>, <<"o1">>)>>)>>)>>,
                ValueInfos(<<"r">>), {}),
     ModelProto(<<>>, ValueInfos(<<"a">>),
                <<NodeProto("", "custom.ops", "Foo", <<"a">>, <<"o1">>, <<>>)>>,
                ValueInfos(<<"o1">>), {}),
     ModelProto(<<>>, ValueInfos(<<"a">>),
                <<NodeProto("N", "", "Add", <<"u">>, <<"p">>, <<>>)>>,
                ValueInfos(<<"p">>), {})}

\* the models of the second conversion
OtherModels ==
    {m \in PairModels : \A k \in 1..Len(m.node) : m.node[k].subgraphs = <<>>}

\* a caller that converted `model` starts two conversions at once, each
\* with a Graph of its own: one of `model` again, one of another model
StartPair ==
    /\ parked.phase = "alone"
    /\ status \in {"done", "failed"}
    /\ model \in PairModels
    /\ \E other \in OtherModels :
          LET a == Len(graphs) + 1
              b == Len(graphs) + 2
          IN /\ graphs' = graphs \o <<NewGraph(model, 0), NewGraph(other, 0)>>
             /\ stack' = <<Settle(NewGraph(model, 0), Frame(a, "initializers", 1))>>
             /\ parked' = [phase |-> "pair", tops |-> <<a, b>>, running |-> a,
                           alone |-> Context(stack, status, failure),
                           other |-> Context(<<Settle(NewGraph(other, 0),
                                                     Frame(b, "initializers", 1))>>,
                                             "running", NoFailure)]
    /\ status' = "running"
    /\ failure' = NoFailure
    /\ UNCHANGED <<app, model, telemetry, ir, events>>

\* the scheduler takes the running thread off the processor and resumes the
\* other one, which has not finished
Switch ==
    /\ parked.phase = "pair"
    /\ parked.other.status = "running"
    /\ stack' = parked.other.stack
    /\ status' = parked.other.status
    /\ failure' = parked.other.failure
    /\ parked' = [parked EXCEPT
                    !.running = IF @ = parked.tops[1] THEN parked.tops[2]
                                ELSE parked.tops[1],
                    !.other = Context(stack, status, failure)]
    /\ UNCHANGED <<app, model, telemetry, graphs, ir, events>>

\* the conversion of a model alone, then two conversions in two threads
NextPair ==
    \/ Next
    \/ StartPair
    \/ Switch

SpecPair == Init /\ [][NextPair]_vars

\* a caller that converted `model` converts it once more with a new Graph,
\* this time without the telemetry sink if it gave one, with one if not
ConvertAgain ==
    /\ parked.phase = "alone"
    /\ status \in {"done", "failed"}
    /\ graphs' = Append(graphs, NewGraph(model, 0))
    /\ stack' = <<Settle(NewGraph(model, 0), Frame(Len(graphs) + 1, "initializers", 1))>>
    /\ telemetry' = ~telemetry
    /\ parked' = [phase |-> "again", tops |-> <<Len(graphs) + 1>>,
                  running |-> Len(graphs) + 1,
                  alone |-> Context(stack, status, failure),
                  other |-> Context(<<>>, "running", NoFailure)]
    /\ status' = "running"
    /\ failure' = NoFailure
    /\ UNCHANGED <<app, model, ir, events>>

\* the conversion of a model with a telemetry sink and without one
NextAgain ==
    \/ Next
    \/ ConvertAgain

SpecAgain == Init /\ [][NextAgain]_vars

\* what a value is retyped and reshaped to
RetypedElementType == "int64"

RetypedShape == <<2, 2>>

\* Node::set_element_type / set_partial_shape by the owner of the IR, after
\* the bodies of a node are imported and before the node uses them: a value
\* of the scope of the node, or of the scope above it, that is no Constant
\* gets another element type, another shape, or both; one value per
\* conversion
RetypeParentValue ==
    /\ Running
    /\ Top.pc = "nodes"
    /\ Top.built # <<>>
    /\ Top.j = Len(Top.built)
    /\ \A m \in 1..Len(ir) :
          ir[m].element_type # RetypedElementType /\ ir[m].shape # RetypedShape
    /\ \E n \in 1..Len(ir) :
          /\ ir[n].type # "Constant"
          /\ ir[n].scope \in {Top.graph} \cup {graphs[Top.graph].m_parent_graph}
          /\ \E t \in {ir[n].element_type, RetypedElementType} :
             \E sh \in {ir[n].shape, RetypedShape} :
                /\ <<t, sh>> # <<ir[n].element_type, ir[n].shape>>
                /\ ir' = [ir EXCEPT ![n].element_type = t, ![n].shape = sh]
    /\ UNCHANGED <<app, model, telemetry, parked, graphs, stack, status, failure, events>>

\* the conversion of a model whose values are retyped in between
NextRetype ==
    \/ Next
    \/ RetypeParentValue

SpecRetype == Init /\ [][NextRetype]_vars

(***************************************************************************)
(* Properties.                                                             *)
(***************************************************************************)
ConstructorPhases == {"initializers", "inputs", "operators"}

Failed == status = "failed"

\* the Graph whose constructor or conversion threw
FailedGraph == Top.graph

DeclaredOutputNames(g) == {g.m_model.output[k].name : k \in 1..Len(g.m_model.output)}

\* the sequences that list each element of `S` once
SeqsOfSet(S) == {q \in [1..Cardinality(S) -> S] : Range(q) = S}

\* the Parameters created for the declared inputs of scope `s`
InputParameters(s) ==
    {p \in 1..Len(ir) : /\ ir[p].type = "Parameter"
                        /\ ir[p].scope = s
                        /\ p \notin DOMAIN graphs[s].m_parameter_to_parent_node_map}

Pruning ==
    /\ Running
    /\ Top.pc = "finalize"
    /\ graphs[Top.graph].m_parent_graph = 0

\* one step of the pruning loop removes exactly the parameter it examines,
\* and only when that parameter feeds no input and none of its tensor names
\* is a declared output; otherwise it moves on to the next parameter
C1_PruningStep ==
    Pruning =>
        LET s == Top.graph
            params == graphs[s].m_parameters
            p == params[Top.i]
            dangling ==
                /\ get_target_inputs(graphs, ir, Output(p, 0)) = {}
                /\ get_names(ir, Output(p, 0)) \cap DeclaredOutputNames(graphs[s]) = {}
            examined == IF dangling THEN Top.i ELSE Top.i + 1
        IN /\ graphs'[s].m_parameters =
                IF dangling THEN SubSeq(params, 1, Top.i - 1)
                                 \o SubSeq(params, Top.i + 1, Len(params))
                ELSE params
           /\ IF examined > Len(graphs'[s].m_parameters)
              THEN stack'[Len(stack)].pc = "create_function"
              ELSE stack'[Len(stack)].pc = "finalize" /\ stack'[Len(stack)].i = examined

\* the pruning loop starts at the first parameter, and the function gets the
\* parameters that survived it; a parameter one of whose names is a declared
\* output is among them
C1_Function ==
    /\ \A k \in 1..Len(stack) :
        (stack[k].pc = "nodes" /\ graphs[stack[k].graph].m_parent_graph = 0)
            => Range(graphs[stack[k].graph].m_parameters) = InputParameters(stack[k].graph)
    /\ status = "done" =>
        /\ graphs[1].function.parameters = graphs[1].m_parameters
        /\ \A p \in InputParameters(1) :
              get_names(ir, Output(p, 0)) \cap DeclaredOutputNames(graphs[1]) # {}
                  => p \in Range(graphs[1].function.parameters)

\* C1: after Graph::convert a declared input's Parameter is absent from the
\* parameter list of the function if and only if, when the pruning loop
\* examined it, it had no consumer and none of its tensor names was a
\* declared output; an unconsumed input that is a declared output is kept.
C1_DanglingParametersPruned == [][C1_PruningStep]_vars /\ []C1_Function

\* a finished conversion that pruned one parameter and kept an unconsumed
\* one because it is a declared output
C1_Witness ==
    /\ status = "done"
    /\ \E p \in InputParameters(1) : p \notin Range(graphs[1].function.parameters)
    /\ \E p \in Range(graphs[1].function.parameters) :
          /\ get_names(ir, Output(p, 0)) \cap DeclaredOutputNames(graphs[1]) # {}
          /\ \A t \in get_target_inputs(graphs, ir, Output(p, 0)) :
                ir[t[1]].type = "Result"

\* the nodes of `g` whose operator no enabled or enableable domain provides
Unresolved(g) ==
    {g.m_model.node[k] : k \in {j \in 1..Len(g.m_model.node) :
        g.m_model.node[j].op_type \notin get_operator_set(g.m_model.node[j].domain)}}

\* the graphs whose constructor has returned
Constructed ==
    {s \in 1..Len(graphs) :
        \/ graphs[s].function.built
        \/ \E k \in 1..Len(stack) :
              \/ stack[k].graph = s /\ stack[k].pc \notin ConstructorPhases
              \/ s \in Range(stack[k].built)}

\* no node of scope `s` was converted: its IR holds constants and parameters
NoNodeConverted(s) ==
    \A n \in 1..Len(ir) : ir[n].scope = s => ir[n].type \in {"Constant", "Parameter"}

UnsupportedFailure == Failed /\ failure.type = "CheckFailure"

DomainDotOpType(n) == n.domain \o "." \o n.op_type

QualifiedName(n) == IF n.domain = "" THEN n.op_type ELSE DomainDotOpType(n)

ReportedName(n, qualified) == IF qualified THEN QualifiedName(n) ELSE DomainDotOpType(n)

\* a constructor returns only when every operator is resolved; its failure
\* names each unresolved operator once, ", " between the names: by its
\* operator type, after "domain." always or only when it has a domain
GateNames(qualified) ==
    /\ \A s \in Constructed : Unresolved(graphs[s]) = {}
    /\ \A k \in 1..Len(stack) :
          (stack[k].pc \in ConstructorPhases /\ ~Failed)
              => NoNodeConverted(stack[k].graph)
    /\ Failed => (failure.type = "CheckFailure" <=>
                    /\ Top.pc = "operators"
                    /\ Unresolved(graphs[FailedGraph]) # {})
    /\ UnsupportedFailure =>
          /\ \E q \in SeqsOfSet({ReportedName(n, qualified) :
                                    n \in Unresolved(graphs[FailedGraph])}) :
                failure.what = UnsupportedMessage \o Join(q, ", ")
          /\ NoNodeConverted(FailedGraph)
          /\ ~graphs[FailedGraph].function.built

\* C2 as stated: the single failure names every unresolved operator as
\* 'domain.op_type', comma-joined, and no node is converted.
C2_AllUnresolvedAsDomainDotOp == GateNames(FALSE)

\* C2, amended: the single failure names every unresolved operator, as
\* 'domain.op_type' when its domain is not empty and as 'op_type' alone when
\* it is, comma-joined, and no node is converted.
C2_AllUnresolvedReported == GateNames(TRUE)

\* a failure that names two unresolved operators
C2_Witness ==
    /\ UnsupportedFailure
    /\ Cardinality({QualifiedName(n) : n \in Unresolved(graphs[FailedGraph])}) >= 2
    /\ \E n \in Unresolved(graphs[FailedGraph]) : n.domain # ""

Nodes(g) == {g.m_model.node[k] : k \in 1..Len(g.m_model.node)}

\* the domain of `n` is not imported by the model, the bridge has `n`
AutoResolvable(g, n) ==
    /\ n.domain \notin DOMAIN InitialOpset(g.m_model)
    /\ n.op_type \in get_operator_set(n.domain)

\* the graphs whose operators were verified, successfully or not
Verified == Constructed \cup (IF Failed /\ Top.pc = "operators" THEN {FailedGraph} ELSE {})

\* C3: an operator whose domain the model did not import, but for which the
\* bridge has an operator set, is resolved by enabling the domain during
\* construction: it is never reported as unsupported, and a constructor
\* fails on its operators only when some other operator is unresolved.
C3_DomainAutoRegistered ==
    /\ \A s \in Verified : \A n \in Nodes(graphs[s]) :
          AutoResolvable(graphs[s], n) =>
              /\ n.domain \in DOMAIN graphs[s].m_opset
              /\ is_operator_available(graphs[s].m_opset, n)
              /\ \A key \in DOMAIN graphs[s].unknown_operators :
                    graphs[s].unknown_operators[key] # n
    /\ UnsupportedFailure =>
          \E n \in Nodes(graphs[FailedGraph]) :
              /\ ~is_operator_available(InitialOpset(graphs[FailedGraph].m_model), n)
              /\ ~AutoResolvable(graphs[FailedGraph], n)

\* a finished conversion of a model that uses custom.ops without importing it
C3_Witness ==
    /\ status = "done"
    /\ \E n \in Nodes(graphs[1]) : AutoResolvable(graphs[1], n)
    /\ \E n \in 1..Len(ir) : ir[n].type = "Foo"

\* the indices of the initializers of scope `s` that the constructor got past
Processed(s) ==
    LET frames == {k \in 1..Len(stack) :
                       stack[k].graph = s /\ stack[k].pc = "initializers"}
    IN IF frames = {} THEN 1..Len(graphs[s].m_model.initializer)
       ELSE 1..((stack[CHOOSE k \in frames : TRUE].i) - 1)

ExternalDataFailure == Failed /\ failure.type = "invalid_external_data"

\* C4: a named initializer whose external data is missing makes the
\* constructor fail at that initializer with invalid_external_data: no
\* constant stands in for it, and the Graph is not constructed.
C4_ExternalDataFatal ==
    /\ \A s \in 1..Len(graphs) : \A k \in Processed(s) :
          LET t == graphs[s].m_model.initializer[k]
          IN t.has_name => t.external_data # "missing"
    /\ Failed =>
          (failure.type = "invalid_external_data" <=>
              /\ Top.pc = "initializers"
              /\ graphs[FailedGraph].m_model.initializer[Top.i].has_name
              /\ graphs[FailedGraph].m_model.initializer[Top.i].external_data = "missing")
    /\ ExternalDataFailure =>
          LET g == graphs[FailedGraph]
              t == g.m_model.initializer[Top.i]
          IN /\ failure.what = t.name
             /\ FailedGraph \notin Constructed
             /\ g.m_parameters = <<>>
             /\ ~g.function.built
             /\ NoNodeConverted(FailedGraph)
             /\ DOMAIN g.m_cache =
                    {g.m_model.initializer[k].name :
                        k \in {j \in Processed(FailedGraph) :
                                  g.m_model.initializer[j].has_name}}

\* the failure comes after an earlier initializer was made a constant
C4_Witness ==
    /\ ExternalDataFailure
    /\ Top.i > 1
    /\ DOMAIN graphs[FailedGraph].m_cache # {}

\* scope `s` has not started converting its nodes
BeforeConversion(s) ==
    /\ ~graphs[s].function.built
    /\ \A k \in 1..Len(stack) :
          stack[k].graph = s => stack[k].pc \in ConstructorPhases \cup {"constructed"}

\* the last processed initializer named as initializer `k` of scope `s`
LastOfName(s, k) ==
    \A j \in Processed(s) :
        (j > k /\ graphs[s].m_model.initializer[j].has_name)
            => graphs[s].m_model.initializer[j].name
                   # graphs[s].m_model.initializer[k].name

\* C5: a named initializer that cannot be decoded for another reason than
\* its external data does not fail the constructor: a scalar constant 0 of
\* the initializer's element type is cached under the initializer's name.
C5_DegradedInitializerIsZeroScalar ==
    /\ \A s \in 1..Len(graphs) : \A k \in Processed(s) :
          LET t == graphs[s].m_model.initializer[k]
          IN (/\ BeforeConversion(s)
              /\ t.has_name
              /\ TensorError(t) = "ngraph_error"
              /\ LastOfName(s, k))
              => /\ contains(graphs[s].m_cache, t.name)
                 /\ LET o == get_node(graphs[s].m_cache, t.name)
                    IN /\ ir[o.node].type = "Constant"
                       /\ ir[o.node].shape = <<>>
                       /\ ir[o.node].data = <<0>>
                       /\ ir[o.node].element_type = t.data_type
                       /\ get_names(ir, o) = {t.name}
    /\ (Failed /\ Top.pc = "initializers") =>
          TensorError(graphs[FailedGraph].m_model.initializer[Top.i]) # "ngraph_error"

\* a model with an undecodable initializer converts to the end
C5_Witness ==
    /\ status = "done"
    /\ \E k \in 1..Len(graphs[1].m_model.initializer) :
          /\ graphs[1].m_model.initializer[k].has_name
          /\ TensorError(graphs[1].m_model.initializer[k]) = "ngraph_error"
    /\ \E n \in 1..Len(ir) :
          ir[n].type = "Constant" /\ ir[n].shape = <<>> /\ ir[n].data = <<0>>

Subgraphs == {s \in 1..Len(graphs) : graphs[s].m_parent_graph # 0}

RECURSIVE Chain(_)
\* scope `s` and its ancestors, nearest first
Chain(s) == IF s = 0 THEN <<>> ELSE <<s>> \o Chain(graphs[s].m_parent_graph)

Ancestors(s) == Range(Tail(Chain(s)))

\* the subgraphs that Subgraph::convert has just returned from: their
\* functions are built and the node that owns them is not converted yet
ConvertedBodies == {s \in Range(Top.built) : graphs[s].function.built}

\* input name `x` of a body of scope `s` is a value of the parent scope that
\* is not a constant
BorrowedFromParent(s, x) ==
    /\ is_ng_node_in_cache(graphs, graphs[s].m_parent_graph, x)
    /\ ~is_constant(ir, get_ng_node_from_cache(graphs, graphs[s].m_parent_graph, x).node)

\* the positions in m_parameters of the parameters that stand in for `x`
StandIns(s, x) ==
    {k \in 1..Len(graphs[s].m_parameters) :
        /\ graphs[s].m_parameters[k] \in DOMAIN graphs[s].m_parameter_to_parent_node_map
        /\ graphs[s].m_parameter_to_parent_node_map[graphs[s].m_parameters[k]] = x}

\* C6: after Subgraph::convert of a body with a single node that consumes a
\* non-constant value x of the parent by name, exactly one parameter of the
\* body stands in for x, x is borrowed once, and the input edge of the node
\* comes from that parameter, whatever the number of outputs of the node.
C6_OneParameterPerBorrowedName ==
    \A s \in ConvertedBodies :
        Len(graphs[s].m_model.node) = 1 =>
            LET node == graphs[s].m_model.node[1]
            IN \A a \in 1..Len(node.input) :
                  BorrowedFromParent(s, node.input[a]) =>
                      /\ Cardinality(StandIns(s, node.input[a])) = 1
                      /\ Cardinality({k \in 1..Len(graphs[s].m_inputs_from_parent) :
                            graphs[s].m_inputs_from_parent[k] = node.input[a]}) = 1
                      /\ \A b \in 1..Len(node.output) :
                            contains(graphs[s].m_cache, node.output[b]) =>
                                LET t == ir[get_node(graphs[s].m_cache, node.output[b]).node]
                                IN /\ a <= Len(t.inputs)
                                   /\ \E k \in StandIns(s, node.input[a]) :
                                         t.inputs[a] = Output(graphs[s].m_parameters[k], 0)

\* C7: after Subgraph::convert no node of the body that is still held has
\* an input that comes from a node of an ancestor scope, constants excepted.
C7_NoEdgeAcrossScopes ==
    \A s \in Subgraphs :
        graphs[s].function.built =>
            \A n \in Closure(ir, Roots(graphs)) :
                ir[n].scope = s =>
                    \A k \in 1..Len(ir[n].inputs) :
                        LET source == ir[n].inputs[k].node
                        IN ir[source].scope \in Ancestors(s) => is_constant(ir, source)

\* the names looked up: every cached name and one that no cache holds
LookupNames ==
    UNION {DOMAIN graphs[s].m_cache : s \in 1..Len(graphs)} \cup {"missing"}

\* the scopes of the chain of `s` whose own cache holds `name`
Holders(s, name) ==
    {k \in 1..Len(Chain(s)) : contains(graphs[Chain(s)[k]].m_cache, name)}

\* the nearest of them
Nearest(s, name) ==
    Chain(s)[CHOOSE k \in Holders(s, name) : \A j \in Holders(s, name) : k <= j]

\* C8: a Subgraph contains a name exactly when its own cache or the cache of
\* one of its ancestors holds it, and get yields the value of the nearest
\* scope of the chain that holds it: the local value when the name is local,
\* whatever the ancestors hold, and the parent's answer otherwise.
C8_ChainLookup ==
    \A s \in Subgraphs : \A name \in LookupNames :
        /\ Subgraph_is_ng_node_in_cache(graphs, s, name) <=> Holders(s, name) # {}
        /\ Holders(s, name) # {} =>
              Subgraph_get_ng_node_from_cache(graphs, s, name)
                  = get_node(graphs[Nearest(s, name)].m_cache, name)
        /\ contains(graphs[s].m_cache, name) =>
              Subgraph_get_ng_node_from_cache(graphs, s, name)
                  = get_node(graphs[s].m_cache, name)
        /\ ~contains(graphs[s].m_cache, name) =>
              /\ Subgraph_is_ng_node_in_cache(graphs, s, name)
                    = is_ng_node_in_cache(graphs, graphs[s].m_parent_graph, name)
              /\ Subgraph_get_ng_node_from_cache(graphs, s, name)
                    = get_ng_node_from_cache(graphs, graphs[s].m_parent_graph, name)

\* a body of a body resolves one name in the top-level scope and shadows
\* another name of its parent with a value of its own
C8_Witness ==
    \E s \in Subgraphs :
        /\ Len(Chain(s)) = 3
        /\ \E name \in LookupNames : Holders(s, name) = {3}
        /\ \E name \in LookupNames :
              /\ {1, 2} \subseteq Holders(s, name)
              /\ get_node(graphs[s].m_cache, name)
                    # get_node(graphs[Chain(s)[2]].m_cache, name)

\* a step leaves the cache of every scope but the acting one as it is
CachesOfOthersKept ==
    \A a \in 1..Len(graphs) :
        a # Top.graph => graphs'[a].m_cache = graphs[a].m_cache

EntriesKept ==
    (Running /\ Top.pc = "nodes") =>
        \A name \in DOMAIN graphs[Top.graph].m_cache :
            /\ name \in DOMAIN graphs'[Top.graph].m_cache
            /\ graphs'[Top.graph].m_cache[name] = graphs[Top.graph].m_cache[name]

\* C10: during the conversion pass of a scope no insertion into its cache
\* replaces an entry the cache already holds.
C10_NoEntryReplaced == [][EntriesKept]_vars

\* make_ng_nodes(node) is about to run for the node at the top of the stack
NodeStep ==
    /\ Running
    /\ Top.pc = "nodes"
    /\ Len(Top.built) = Len(CurrentNode.subgraphs)
    /\ Top.j = Len(Top.built)

\* a step in which make_ng_nodes(node) returned
Converted == NodeStep /\ stack' # stack /\ status' = status

\* what the conversion function of the node returns
Produced ==
    LET got == get_ng_inputs(graphs, Top.graph, CurrentNode.input,
                             [ir |-> ir, inputs |-> <<>>, missing |-> ""])
    IN ConversionFunction(got.ir, CurrentNode, got.inputs,
                          ImplicitInputs(graphs, Top.built), Top.graph).outputs

\* the positions that are both produced and declared
NamedPositions ==
    {i \in 1..Len(Produced) : i <= Len(CurrentNode.output)}

ProducedByDistinctNodes ==
    /\ Len(Produced) >= 2
    /\ \A i, j \in 1..Len(Produced) : i # j => Produced[i].node # Produced[j].node

ProducedByOneNode ==
    /\ Len(Produced) >= 1
    /\ \A i \in 1..Len(Produced) : Produced[i].node = Produced[1].node

SuffixedNames ==
    (/\ Converted
     /\ CurrentNode.op_type # "Identity"
     /\ CurrentNode.name # ""
     /\ ProducedByDistinctNodes)
        => /\ \A i \in NamedPositions :
                 ir'[Produced[i].node].friendly_name
                     = CurrentNode.name \o "_" \o CurrentNode.output[i]
           /\ \A i, j \in NamedPositions :
                 i # j => ir'[Produced[i].node].friendly_name
                              # ir'[Produced[j].node].friendly_name

\* C11: a node with a declared name N whose outputs come from distinct IR
\* nodes names each of them N_<its output name>, and these friendly names
\* are pairwise different.
C11_DistinctNodesSuffixed == [][SuffixedNames]_vars

DeclaredName ==
    (/\ Converted
     /\ CurrentNode.op_type # "Identity"
     /\ CurrentNode.name # ""
     /\ CurrentNode.output # <<>>
     /\ ProducedByOneNode)
        => ir'[Produced[1].node].friendly_name = CurrentNode.name

\* C12: a node other than Identity with a declared name N whose outputs all
\* come from one IR node names that IR node N, however many outputs it has.
C12_CommonNodeNamed == [][DeclaredName]_vars

\* a two-output IR node that carries the declared name of its node
C12_Witness ==
    /\ status = "done"
    /\ \E n \in 1..Len(ir) :
          /\ ir[n].type = "Split"
          /\ Len(ir[n].names) >= 2
          /\ ir[n].friendly_name = "N"

\* the last of the named positions whose output comes from IR node `n`
LastPositionOf(n) ==
    CHOOSE i \in NamedPositions :
        /\ Produced[i].node = n
        /\ \A j \in NamedPositions : Produced[j].node = n => j <= i

LastOutputName ==
    (/\ Converted
     /\ CurrentNode.op_type # "Identity"
     /\ CurrentNode.name = "")
        => \A i \in NamedPositions :
              ir'[Produced[i].node].friendly_name
                  = CurrentNode.output[LastPositionOf(Produced[i].node)]

\* C13: a node other than Identity without a declared name names each IR
\* node after the last declared output that IR node produces; an IR node
\* that produces every output is named after the last declared output.
C13_UnnamedNodeLastOutput == [][LastOutputName]_vars

\* a two-output IR node of an unnamed node, named after its second output
C13_Witness ==
    /\ status = "done"
    /\ model.node # <<>>
    /\ model.node[1].name = ""
    /\ model.node[1].output = <<"o1", "o2">>
    /\ \E n \in 1..Len(ir) :
          /\ ir[n].type = "Split"
          /\ ir[n].friendly_name = "o2"

OutputsBound ==
    (Converted /\ CurrentNode.op_type # "Identity")
        => \A i \in NamedPositions :
              ~is_null(ir', Produced[i])
                  => CurrentNode.output[i] \in get_names(ir', Produced[i])

\* C14: after the naming of a node other than Identity every output it
\* produced at a declared position, unless null, has its declared output
\* name among its tensor names.
C14_DeclaredNameBound == [][OutputsBound]_vars

\* both outputs of a node carry their declared names
C14_Witness ==
    /\ status = "done"
    /\ \E n \in 1..Len(ir) :
          /\ ir[n].type = "Split"
          /\ Len(ir[n].names) = 2
          /\ "o1" \in ir[n].names[1]
          /\ "o2" \in ir[n].names[2]

\* the tensor names of `output` before the step; a node created in the
\* step had none
NamesBefore(output) ==
    IF output.node <= Len(ir) THEN get_names(ir, output) ELSE {}

IdentityKeepsNames ==
    (Converted /\ CurrentNode.op_type = "Identity")
        => /\ \A n \in 1..Len(ir) : ir'[n].friendly_name = ir[n].friendly_name
           /\ \A n \in 1..Len(ir) : \A k \in 1..Len(ir[n].names) :
                 ir[n].names[k] \subseteq ir'[n].names[k]
           /\ \A i \in 1..Len(Produced) :
                 get_names(ir', Produced[i])
                     = NamesBefore(Produced[i]) \cup {CurrentNode.output[i]}

\* C15: the naming of an Identity node changes no friendly name and removes
\* no tensor name: each output keeps the names of the value it passes on and
\* gains the declared output name.
C15_IdentityPassesNames == [][IdentityKeepsNames]_vars

\* an input passed through an Identity: it keeps its names and has the
\* name of the output of the Identity too
C15_Witness ==
    /\ status = "done"
    /\ model.node # <<>>
    /\ model.node[1].op_type = "Identity"
    /\ \E n \in 1..Len(ir) :
          /\ ir[n].type = "Parameter"
          /\ ir[n].friendly_name = "a"
          /\ {"a", "o1"} \subseteq ir[n].names[1]

\* the graphs whose constructor has returned and whose nodes are untouched
JustConstructed == {s \in Constructed : BeforeConversion(s)}

InitializerNames(g) ==
    {g.m_model.initializer[k].name :
        k \in {j \in 1..Len(g.m_model.initializer) : g.m_model.initializer[j].has_name}}

RECURSIVE FirstOccurrences(_, _)
\* the names of `names` that are not in `seen`, each once, in order
FirstOccurrences(names, seen) ==
    IF names = <<>> THEN <<>>
    ELSE IF names[1] \in seen THEN FirstOccurrences(Tail(names), seen)
    ELSE <<names[1]>> \o FirstOccurrences(Tail(names), seen \cup {names[1]})

InputNames(g) == [k \in 1..Len(g.m_model.input) |-> g.m_model.input[k].name]

\* C16: when the constructor of a Graph returns, every declared input whose
\* name is not the name of an initializer has exactly one Parameter, of the
\* declared type and shape, which is the cache entry of the name and is in
\* the parameter list, the list following the order of declaration; a
\* declared input with the name of an initializer has no Parameter and its
\* cache entry is the constant of the initializer.
C16_InputsBound ==
    \A s \in JustConstructed :
        LET g == graphs[s]
            bound == FirstOccurrences(InputNames(g), InitializerNames(g))
        IN /\ Len(g.m_parameters) = Len(bound)
           /\ \A k \in 1..Len(bound) :
                 LET p == g.m_parameters[k]
                 IN /\ ir[p].type = "Parameter"
                    /\ ir[p].friendly_name = bound[k]
                    /\ get_names(ir, Output(p, 0)) = {bound[k]}
                    /\ \E j \in 1..Len(g.m_model.input) :
                          /\ g.m_model.input[j].name = bound[k]
                          /\ ir[p].element_type = g.m_model.input[j].elem_type
                          /\ ir[p].shape = g.m_model.input[j].shape
                    /\ contains(g.m_cache, bound[k])
                    /\ get_node(g.m_cache, bound[k]) = Output(p, 0)
           /\ {p \in 1..Len(ir) : ir[p].type = "Parameter" /\ ir[p].scope = s}
                 = Range(g.m_parameters)
           /\ \A j \in 1..Len(g.m_model.input) :
                 g.m_model.input[j].name \in InitializerNames(g)
                     => /\ contains(g.m_cache, g.m_model.input[j].name)
                        /\ is_constant(ir, get_node(g.m_cache, g.m_model.input[j].name).node)

\* a constructed Graph with a shadowed input and two parameters
C16_Witness ==
    \E s \in JustConstructed :
        /\ Len(graphs[s].m_parameters) = 2
        /\ \E j \in 1..Len(graphs[s].m_model.input) :
              graphs[s].m_model.input[j].name \in InitializerNames(graphs[s])

\* a step in which create_function returns the function of the acting graph
FunctionCreated ==
    /\ Running
    /\ Top.pc = "create_function"
    /\ graphs'[Top.graph].function.built

\* the values the declared outputs of scope `s` resolve to, in order
DeclaredOutputValues(s) ==
    [k \in 1..Len(graphs[s].m_model.output) |->
        get_ng_node_from_cache(graphs, s, graphs[s].m_model.output[k].name)]

IsNotNull(output) == ~is_null(ir, output)

IsIncreasing(seq) == \A j, k \in 1..Len(seq) : j < k => seq[j] < seq[k]

OutputsOfFunction ==
    FunctionCreated =>
        LET s == Top.graph
            function == graphs'[s].function
            expected == SelectSeq(DeclaredOutputValues(s), IsNotNull)
        IN /\ Len(function.results) = Len(expected)
           /\ \A k \in 1..Len(expected) :
                 /\ ir'[function.results[k]].type = "Result"
                 /\ ir'[function.results[k]].inputs = <<expected[k]>>
           /\ function.parameters = graphs[s].m_parameters
           /\ IsIncreasing(function.parameters)

\* C17: the outputs of the finished function are the cache values of the
\* declared output names, in the order of declaration, without those that
\* are null, so there are as many as non-null declared outputs; its
\* parameters are the surviving parameter list, in the order of creation.
C17_FunctionOutputs == [][OutputsOfFunction]_vars

\* a function with fewer outputs than the model declares
C17_Witness ==
    /\ status = "done"
    /\ graphs[1].function.results # <<>>
    /\ Len(graphs[1].function.results) < Len(model.output)
    /\ graphs[1].function.parameters # <<>>

(***************************************************************************)
(* Decode-only conversion.                                                 *)
(***************************************************************************)
DecodeStep ==
    /\ Running
    /\ Top.pc = "decode_nodes"
    /\ Len(Top.built) = Len(CurrentNode.subgraphs)
    /\ Top.j = Len(Top.built)

\* a step in which one iteration of decode_to_framework_nodes ended
Decoded == DecodeStep /\ stack' # stack /\ status' = status

PlaceholderTypes == {"ONNXFrameworkNode", "ONNXSubgraphFrameworkNode"}

\* the absent optional inputs of a node
NullInputs(node) == {a \in 1..Len(node.input) : node.input[a] = ""}

\* the last position at which a node declares output name `name`
LastDeclared(node, name) ==
    CHOOSE k \in 1..Len(node.output) :
        /\ node.output[k] = name
        /\ \A j \in 1..Len(node.output) : node.output[j] = name => j <= k

\* the Graph objects of the decode-only conversion under way
DecodeScopes ==
    IF stack # <<>> /\ stack[1].mode = "decode"
    THEN {s \in 1..Len(graphs) : s >= stack[1].graph}
    ELSE {}

\* the one IR node a decoded node becomes, named and put into the cache
PlaceholderMade ==
    Decoded =>
        LET node == CurrentNode
            s == Top.graph
            p == Len(ir')
        IN /\ Len(ir') = Len(ir) + Cardinality(NullInputs(node)) + 1
           /\ \A n \in 1..Len(ir) : ir'[n] = ir[n]
           /\ \A n \in (Len(ir) + 1)..(p - 1) : ir'[n].type = "NullNode"
           /\ ir'[p].type = (IF node.subgraphs # <<>> THEN "ONNXSubgraphFrameworkNode"
                             ELSE "ONNXFrameworkNode")
           /\ Len(ir'[p].names) = Len(node.output)
           /\ Len(ir'[p].inputs) >= Len(node.input)
           /\ \A k \in 1..Len(node.output) :
                 /\ node.output[k] \in get_names(ir', Output(p, k - 1))
                 /\ contains(graphs'[s].m_cache, node.output[k])
                 /\ get_node(graphs'[s].m_cache, node.output[k])
                        = Output(p, LastDeclared(node, node.output[k]) - 1)
           /\ node.op_type # "Identity" =>
                 ir'[p].friendly_name = (IF node.name # "" THEN node.name
                                         ELSE node.output[Len(node.output)])
           /\ \A x \in DOMAIN graphs[s].m_cache \ Range(node.output) :
                 /\ contains(graphs'[s].m_cache, x)
                 /\ get_node(graphs'[s].m_cache, x) = get_node(graphs[s].m_cache, x)

\* the bodies of a node are decoded and lifted before the node is wrapped
BodiesDecoded ==
    Decoded =>
        \A b \in Range(Top.built) :
            /\ graphs[b].function.built
            /\ graphs[b].function.rt_info = b
            /\ \A n \in Nodes(graphs[b]) :
                  /\ \A k \in 1..Len(n.output) :
                        /\ contains(graphs[b].m_cache, n.output[k])
                        /\ ir[get_node(graphs[b].m_cache, n.output[k]).node].type
                               \in PlaceholderTypes
                  /\ \A a \in 1..Len(n.input) :
                        (n.output # <<>> /\ BorrowedFromParent(b, n.input[a])) =>
                            /\ n.input[a] \in Range(graphs[b].m_inputs_from_parent)
                            /\ StandIns(b, n.input[a]) # {}
                            /\ get_ng_node_from_cache(graphs, Top.graph, n.input[a])
                                   \in Range(ir'[Len(ir')].inputs)

\* nothing but placeholders, parameters, constants and results is made
OnlyPlaceholders ==
    \A n \in 1..Len(ir) :
        ir[n].scope \in DecodeScopes =>
            ir[n].type \in PlaceholderTypes \cup {"Constant", "Parameter", "NullNode", "Result"}

\* a decoded function is associated with the Graph it was decoded from
Associated ==
    /\ \A s \in DecodeScopes : graphs[s].function.built => graphs[s].function.rt_info = s
    /\ status = "decoded" =>
          /\ Top.graph \in DecodeScopes
          /\ graphs[Top.graph].function.built

\* C18: in a decode-only conversion every node becomes one placeholder node
\* and no conversion function runs: the placeholder has one output per
\* declared output, is named by the friendly-naming policy and is put into
\* the cache under the declared output names; the bodies of a node are
\* decoded and lifted first; the decoded function is associated with the
\* Graph it was decoded from.
C18_DecodeWrapsEveryNode ==
    /\ [][PlaceholderMade /\ BodiesDecoded]_vars
    /\ [](OnlyPlaceholders /\ Associated)

\* a decoded model whose Loop node owns a decoded body that borrows a value
C18_Witness ==
    /\ status = "decoded"
    /\ graphs[Top.graph].function.rt_info = Top.graph
    /\ \E b \in DecodeScopes :
          /\ graphs[b].m_parent_graph = Top.graph
          /\ graphs[b].function.rt_info = b
          /\ graphs[b].m_inputs_from_parent # <<>>
    /\ \E n \in 1..Len(ir) :
          /\ ir[n].type = "ONNXSubgraphFrameworkNode"
          /\ ir[n].scope = Top.graph

\* C19: a decode-only conversion never fails for want of a conversion
\* function: no decode-only conversion ends in the failure that lists the
\* unsupported operators, whatever operators the model contains.
C19_DecodeToleratesUnresolved == DecodeScopes # {} => ~UnsupportedFailure

(***************************************************************************)
(* Decode-only conversion followed by the full conversion.                 *)
(***************************************************************************)
\* the outputs of a function: for each result its name, the tensor names
\* and the shape of the value it returns
OutputsOf(f) ==
    [k \in 1..Len(f.results) |->
        LET source == ir[f.results[k]].inputs[1]
        IN [name |-> ir[f.results[k]].friendly_name,
            names |-> get_names(ir, source),
            shape |-> ir[source.node].shape]]

\* the Graph the model was converted by directly
Direct == Head(graphs)

\* the Graph the model was decoded by, and then converted by in full
RoundTrip == stack[1].graph

\* both conversions of the model are over
BothOver ==
    /\ stack # <<>>
    /\ stack[1].mode # "convert"
    /\ status \in {"done", "failed"}

\* C20: when the direct full conversion of a model yields a function, the
\* decode-only conversion of the model followed by the full conversion
\* yields a function too, with as many outputs, of the same names and the
\* same shapes.
C20_RoundTripSameOutputs ==
    (BothOver /\ Direct.function.built) =>
        /\ status = "done"
        /\ OutputsOf(graphs[RoundTrip].function) = OutputsOf(Direct.function)

\* the names a graph binds before its nodes run, and the names its nodes bind
BoundAtConstruction(g) ==
    {g.m_model.input[k].name : k \in 1..Len(g.m_model.input)}
        \cup {g.m_model.initializer[k].name : k \in 1..Len(g.m_model.initializer)}

\* a node of the graph binds a name that something else of the graph binds
NameBoundTwice(g) ==
    \E k \in 1..Len(g.m_model.node) : \E b \in 1..Len(g.m_model.node[k].output) :
        LET name == g.m_model.node[k].output[b]
        IN \/ name \in BoundAtConstruction(g)
           \/ \E j \in 1..Len(g.m_model.node) : \E c \in 1..Len(g.m_model.node[j].output) :
                 /\ <<j, c>> # <<k, b>>
                 /\ g.m_model.node[j].output[c] = name

\* the round trip of a model none of whose graphs binds a name twice
RoundTripOfSingleAssignment ==
    (/\ BothOver
     /\ Direct.function.built
     /\ \A s \in 1..Len(graphs) : ~NameBoundTwice(graphs[s]))
        => /\ status = "done"
           /\ OutputsOf(graphs[RoundTrip].function) = OutputsOf(Direct.function)

(***************************************************************************)
(* Telemetry.                                                              *)
(***************************************************************************)
RECURSIVE NodesWithin(_)
RECURSIVE NodesOfBodies(_)
\* the nodes of a graph and of the bodies nested in it, at any depth
NodesWithin(nodes) ==
    IF nodes = <<>> THEN <<>>
    ELSE <<nodes[1]>> \o NodesOfBodies(nodes[1].subgraphs) \o NodesWithin(Tail(nodes))

NodesOfBodies(bodies) ==
    IF bodies = <<>> THEN <<>>
    ELSE NodesWithin(bodies[1].node) \o NodesOfBodies(Tail(bodies))

\* the number of nodes of operator name `op` among `nodes`
Occurrences(nodes, op) == Cardinality({k \in 1..Len(nodes) : nodes[k].op_type = op})

OperatorNames(nodes) == {nodes[k].op_type : k \in 1..Len(nodes)}

\* the op_count events sent for operator name `op`
EventsOf(op) ==
    {k \in 1..Len(events) :
        events[k].category = "op_count" /\ events[k].action = "onnx_" \o op}

\* a conversion that ran to its end with a telemetry sink
Reported == status = "done" /\ telemetry

\* one event per operator name of `nodes`, valued with its occurrences
OneEventPerOperator(nodes) ==
    /\ \A op \in OperatorNames(nodes) :
          /\ Cardinality(EventsOf(op)) = 1
          /\ \A k \in EventsOf(op) : events[k].value = Occurrences(nodes, op)
    /\ \A k \in 1..Len(events) :
          \E op \in OperatorNames(nodes) : k \in EventsOf(op)

\* C21: with a telemetry sink a conversion sends exactly one op_count event
\* per distinct operator name of the model, valued with the number of nodes
\* of that name, and sends it once; without a sink it sends nothing.
C21_OneOpCountPerOperator ==
    /\ Reported => OneEventPerOperator(NodesWithin(model.node))
    /\ ~telemetry => events = <<>>

\* the same for the models that have no nested body
OpCountOfFlatModel ==
    /\ (Reported /\ NodesWithin(model.node) = model.node)
          => OneEventPerOperator(model.node)
    /\ ~telemetry => events = <<>>

(***************************************************************************)
(* The phases of a full top-level conversion.                              *)
(***************************************************************************)
Phases == <<"Initializing", "InputBinding", "NodeConversion", "Finalizing", "Done">>

\* the phase a position of the top-level frame belongs to; the operator
\* gate ends the constructor, after the inputs
PhaseOfPc(pc) ==
    CASE pc = "initializers" -> "Initializing"
      [] pc \in {"inputs", "operators", "constructed"} -> "InputBinding"
      [] pc = "nodes" -> "NodeConversion"
      [] pc \in {"finalize", "create_function"} -> "Finalizing"
      [] pc = "done" -> "Done"

PhaseRank(phase) == CHOOSE k \in 1..Len(Phases) : Phases[k] = phase

\* the top-level Graph of the conversion and the phase it is in
TopLevel == stack[1].graph

Phase == PhaseOfPc(stack[1].pc)

\* the step of a conversion, seen from its top-level Graph
PhaseStep ==
    LET t == TopLevel
        g == graphs[t]
        next == PhaseOfPc(stack'[1].pc)
        new == {n \in (Len(ir) + 1)..Len(ir') : ir'[n].scope = t}
    IN /\ PhaseRank(next) >= PhaseRank(Phase)
       /\ Phase = "Initializing" => \A n \in new : ir'[n].type = "Constant"
       /\ Phase = "InputBinding" => \A n \in new : ir'[n].type = "Parameter"
       /\ Phase \in {"Finalizing", "Done"} => \A n \in new : ir'[n].type = "Result"
       /\ Phase # "InputBinding" =>
             Range(graphs'[t].m_parameters) \subseteq Range(g.m_parameters)
       /\ Phase # "Finalizing" =>
             Range(g.m_parameters) \subseteq Range(graphs'[t].m_parameters)
       /\ (Phase # "Finalizing" /\ next = "Finalizing") =>
             \/ g.m_model.node = <<>>
             \/ /\ Len(stack) = 1
                /\ stack[1].pc = "nodes"
                /\ stack[1].i = Len(g.m_model.node)
       /\ (~g.function.built /\ graphs'[t].function.built) =>
             /\ stack[1].pc = "create_function"
             /\ next = "Done"
             /\ graphs'[t].m_parameters = g.m_parameters

\* what a phase finds done when it starts
PhaseEntry ==
    LET g == graphs[TopLevel]
    IN /\ Phase \in {"InputBinding", "NodeConversion"} =>
             \A k \in 1..Len(g.m_model.initializer) :
                 g.m_model.initializer[k].has_name
                     => contains(g.m_cache, g.m_model.initializer[k].name)
       /\ Phase = "NodeConversion" =>
             \A k \in 1..Len(g.m_model.input) :
                 contains(g.m_cache, g.m_model.input[k].name)
       /\ g.function.built <=> Phase = "Done"

\* C24: a full top-level conversion goes through Initializing, InputBinding,
\* NodeConversion, Finalizing and Done in that order and never back: the
\* named initializers are in the cache before the first Parameter is made,
\* the declared inputs are bound before the first node is converted,
\* pruning starts after the last node was converted and the function is
\* built after pruning.
C24_PhasesInOrder == [][PhaseStep]_vars /\ []PhaseEntry

\* a finished conversion that had an initializer, a node and pruned an input
C24_Witness ==
    /\ status = "done"
    /\ model.initializer # <<>>
    /\ model.node # <<>>
    /\ \E k \in 1..Len(model.input) :
          ~contains(graphs[TopLevel].m_cache, model.input[k].name)

(***************************************************************************)
(* The order in which the nodes of a scope are converted.                  *)
(***************************************************************************)
\* the frames that a step keeps: the same Graph at the same depth
KeptFrames ==
    {d \in 1..Len(stack) : d <= Len(stack') /\ stack'[d].graph = stack[d].graph}

\* the names the nodes before position `i` of graph `g` declare as outputs
OutputsBefore(g, i) ==
    UNION {Range(g.m_model.node[k].output) : k \in {j \in 1..Len(g.m_model.node) : j < i}}

\* a step in which the innermost scope is done with a node
Dispatched ==
    /\ Running
    /\ Top.pc = "nodes"
    /\ Len(stack') = Len(stack)
    /\ stack'[Len(stack)].graph = Top.graph
    /\ stack'[Len(stack)].pc \in {"nodes", "finalize", "create_function"}
    /\ stack'[Len(stack)].pc = "nodes" => stack'[Len(stack)].i = Top.i + 1
    /\ stack'[Len(stack)].pc # "nodes" => Top.i = Len(graphs[Top.graph].m_model.node)
    /\ stack'[Len(stack)].j = 0
    /\ stack' # stack

\* one node after the other, the innermost scope only, bodies first
DepthFirstStep ==
    /\ \A d \in KeptFrames :
          (stack[d].pc = "nodes" /\ stack'[d].pc = "nodes") =>
              /\ stack'[d].i \in {stack[d].i, stack[d].i + 1}
              /\ stack'[d].i # stack[d].i => d = Len(stack)
              /\ d < Len(stack) => graphs'[stack[d].graph].m_cache
                                       = graphs[stack[d].graph].m_cache
    /\ Dispatched =>
          /\ Len(Top.built) = Len(CurrentNode.subgraphs)
          /\ \A b \in Range(Top.built) : graphs[b].function.built
          /\ \A x \in DOMAIN graphs'[Top.graph].m_cache \ DOMAIN graphs[Top.graph].m_cache :
                x \in Range(CurrentNode.output)

\* while a body is converted, its ancestors bind nothing but initializers,
\* inputs and the outputs of the nodes before the one that owns the body
BoundEarlier ==
    \A d \in 1..(Len(stack) - 1) :
        stack[d].pc = "nodes" =>
            LET g == graphs[stack[d].graph]
            IN DOMAIN g.m_cache \subseteq
                   InitializerNames(g) \cup Range(InputNames(g)) \cup OutputsBefore(g, stack[d].i)

\* C25: the nodes of a scope are converted in declaration order; the bodies
\* of a node are converted to the end before the node is dispatched and
\* before a later node of the scope is touched; so a body finds in its
\* ancestors only names bound by initializers, inputs and earlier nodes.
C25_DepthFirstInOrder == [][DepthFirstStep]_vars /\ []BoundEarlier

\* a body whose first node owns a body of its own and is followed by a node
C25_Witness ==
    /\ status = "done"
    /\ \E s \in Subgraphs :
          /\ Len(graphs[s].m_model.node) >= 2
          /\ graphs[s].m_model.node[1].subgraphs # <<>>
          /\ graphs[s].function.built
          /\ \E b \in Subgraphs : graphs[b].m_parent_graph = s /\ graphs[b].function.built

(***************************************************************************)
(* Failures of the conversion of a node.                                   *)
(***************************************************************************)
\* what the conversion function of the node does when it is called
Dispatch ==
    LET got == get_ng_inputs(graphs, Top.graph, CurrentNode.input,
                             [ir |-> ir, inputs |-> <<>>, missing |-> ""])
        made == ConversionFunction(got.ir, CurrentNode, got.inputs,
                                   ImplicitInputs(graphs, Top.built), Top.graph)
    IN IF got.missing # ""
       THEN [thrown |-> "ngraph_error",
             what |-> got.missing \o " node not found in graph cache"]
       ELSE [thrown |-> made.thrown, what |-> made.what]

\* a step in which the conversion of the node fails
NodeFailed == NodeStep /\ status' = "failed"

\* the failure is the original one with the node in front
Prefixed(original) ==
    /\ failure'.type = "ngraph_error"
    /\ failure'.what = get_error_msg_prefix(CurrentNode) \o ":\n" \o original

\* the failure the caller gets when the conversion function throws
ThrownReported ==
    CASE Dispatch.thrown = "OnnxNodeValidationFailure" ->
            failure' = [type |-> "OnnxNodeValidationFailure", what |-> Dispatch.what]
      [] Dispatch.thrown = "foreign" ->
            failure' = [type |-> "foreign", what |-> Dispatch.what]
      [] OTHER -> Prefixed(Dispatch.what)

\* a failed conversion takes no further step
Stopped == status = "failed" => UNCHANGED vars

\* every failure of the conversion of a node, whatever raises it
NodeFailureReported ==
    /\ NodeFailed =>
          /\ stack' = stack
          /\ IF Dispatch.thrown # "" THEN ThrownReported
             ELSE \E original \in {"vector::at"} : Prefixed(original)
    /\ (NodeStep /\ Dispatch.thrown # "") => NodeFailed
    /\ Stopped

\* the failures that the conversion function of the node raises
DispatchFailureReported ==
    /\ (NodeFailed /\ Dispatch.thrown # "") =>
          /\ stack' = stack
          /\ ThrownReported
    /\ (NodeStep /\ Dispatch.thrown # "") => NodeFailed
    /\ Stopped

\* C26: when the conversion of a node fails, a validation failure of the
\* operator reaches the caller unchanged, a failure of a foreign type
\* reaches it unchanged, every other failure reaches it as a failure whose
\* message is the prefix that identifies the node followed by the original
\* message; the conversion stops there.
C26_NodeFailureReported == [][NodeFailureReported]_vars

\* the same for the failures raised inside the conversion function
DispatchFailuresReported == [][DispatchFailureReported]_vars

(***************************************************************************)
(* The cache after the dispatch of a node.                                 *)
(***************************************************************************)
\* the produced positions past the declared outputs
ExcessPositions == {i \in 1..Len(Produced) : i > Len(CurrentNode.output)}

\* every declared position is bound to what was produced there, nothing
\* produced past the declared outputs is bound
OutputsInserted ==
    LET cache == graphs[Top.graph].m_cache
        after == graphs'[Top.graph].m_cache
    IN /\ \A i \in 1..Len(CurrentNode.output) :
             /\ contains(after, CurrentNode.output[i])
             /\ get_node(after, CurrentNode.output[i]) = Produced[i]
       /\ \A name \in DOMAIN after :
             (name \notin DOMAIN cache \/ after[name] # cache[name])
                 => name \in Range(CurrentNode.output)
       /\ \A i \in ExcessPositions :
             (\A j \in NamedPositions : Produced[j] # Produced[i]) =>
                 \A name \in DOMAIN after :
                     after[name] = Produced[i]
                         => (name \in DOMAIN cache /\ cache[name] = Produced[i])

\* the declared output names of the node are pairwise different
DistinctOutputNames ==
    \A i, j \in 1..Len(CurrentNode.output) :
        CurrentNode.output[i] = CurrentNode.output[j] => i = j

\* C27: after the dispatch of a node the cache of its scope maps the i-th
\* declared output name to the i-th output the conversion function
\* returned, for every declared position i, and binds no name to an output
\* returned past the declared positions.
C27_OutputsInsertedByPosition == [][Converted => OutputsInserted]_vars

\* the same for the nodes that declare no output name twice
OutputsInsertedWhenDistinct == [][(Converted /\ DistinctOutputNames) => OutputsInserted]_vars

(***************************************************************************)
(* The calls that lift a value of the parent scope.                        *)
(***************************************************************************)
\* input lifting is about to run for the body at the top of the stack
LiftingDue ==
    /\ Running
    /\ Top.pc = "finalize"
    /\ graphs[Top.graph].m_parent_graph # 0

\* the calls of replace_input_from_parent_scope_with_parameter it makes
LiftCalls ==
    find_inputs_from_parent([gs |-> graphs, ir |-> ir, what |-> "", calls |-> <<>>],
                            Top.graph, 1).calls

\* what one call leaves behind
Lifted(c) ==
    LET s == c.scope
        g == c.before.gs[s]
        h == c.after.gs[s]
        q == Len(c.before.ir) + 1
        value == get_ng_node_from_cache(c.before.gs, g.m_parent_graph, c.in_name)
    IN /\ c.from_parent_node = value
       /\ ~is_constant(c.before.ir, value.node)
       /\ Len(c.after.ir) = q
       /\ c.after.ir[q].type = "Parameter"
       /\ c.after.ir[q].element_type = c.before.ir[value.node].element_type
       /\ c.after.ir[q].shape = c.before.ir[value.node].shape
       /\ contains(h.m_cache, c.in_name)
       /\ get_node(h.m_cache, c.in_name) = Output(q, 0)
       /\ \A x \in DOMAIN g.m_cache \ {c.in_name} :
             contains(h.m_cache, x) /\ get_node(h.m_cache, x) = get_node(g.m_cache, x)
       /\ DOMAIN h.m_parameter_to_parent_node_map
              = DOMAIN g.m_parameter_to_parent_node_map \cup {q}
       /\ h.m_parameter_to_parent_node_map[q] = c.in_name
       /\ \A o \in DOMAIN g.m_parameter_to_parent_node_map :
             h.m_parameter_to_parent_node_map[o] = g.m_parameter_to_parent_node_map[o]
       /\ h.m_parameters = Append(g.m_parameters, q)
       /\ h.m_inputs_from_parent = Append(g.m_inputs_from_parent, c.in_name)
       /\ c.after.ir[c.target].inputs[c.input_index + 1] = Output(q, 0)
       /\ \A n \in 1..Len(c.before.ir) :
             c.after.ir[n] = [c.before.ir[n] EXCEPT
                                !.inputs = IF n = c.target
                                           THEN [@ EXCEPT ![c.input_index + 1] = Output(q, 0)]
                                           ELSE @]
       /\ \A t \in 1..Len(c.before.gs) : t # s => c.after.gs[t] = c.before.gs[t]

\* no declared node name of a scope above the body at the top of the stack is
\* also the name of a value there
NodeNamesApart ==
    \A p \in Ancestors(Top.graph) : \A n \in Nodes(graphs[p]) :
        n.name = "" \/ ~is_ng_node_in_cache(graphs, graphs[Top.graph].m_parent_graph, n.name)

\* C28: every call that lifts a name of the parent scope makes one new
\* Parameter of the element type and shape the parent value has at that
\* moment, binds the name to it in the local cache, records the parameter
\* with the name, appends the parameter to the parameter list and the name
\* to the borrowed names, and makes the consuming input edge come from the
\* parameter; the parent value is never a Constant.
C28_LiftingStep ==
    LiftingDue => \A k \in 1..Len(LiftCalls) : Lifted(LiftCalls[k])

(***************************************************************************)
(* Implicit inputs of the nodes that own subgraphs.                        *)
(***************************************************************************)
\* the IR nodes of body `s` that own subgraphs and are cached under a
\* declared output name of a node of `s`
OwnersOfSubgraphs(s) ==
    {get_node(graphs[s].m_cache, n.output[b]).node :
        <<n, b>> \in {<<n, b>> \in Nodes(graphs[s]) \X (1..MaxOutputs) :
                        /\ b <= Len(n.output)
                        /\ contains(graphs[s].m_cache, n.output[b])
                        /\ ir[get_node(graphs[s].m_cache, n.output[b]).node].type
                              \in {"MultiSubGraphOp", "ONNXSubgraphFrameworkNode"}
                        /\ ir[get_node(graphs[s].m_cache, n.output[b]).node].scope = s}}

\* the names under which the scopes above `s` hold the value `v`
ParentNamesOf(s, v) ==
    {x \in LookupNames :
        /\ is_ng_node_in_cache(graphs, graphs[s].m_parent_graph, x)
        /\ get_ng_node_from_cache(graphs, graphs[s].m_parent_graph, x) = v}

\* the value `v` is a parameter of `s` that stands in for a name of the
\* parent scope, with the bookkeeping of a lifted input
LiftedParameter(s, v) ==
    /\ ir[v.node].type = "Parameter"
    /\ ir[v.node].scope = s
    /\ v.node \in DOMAIN graphs[s].m_parameter_to_parent_node_map
    /\ v.node \in Range(graphs[s].m_parameters)
    /\ graphs[s].m_parameter_to_parent_node_map[v.node]
          \in Range(graphs[s].m_inputs_from_parent)
    /\ is_ng_node_in_cache(graphs, graphs[s].m_parent_graph,
                           graphs[s].m_parameter_to_parent_node_map[v.node])

\* no input of a node of `s` that owns subgraphs is a value of the parent
\* scope, constants excepted; what was one is a lifted parameter
ImplicitInputsLifted(s) ==
    \A t \in OwnersOfSubgraphs(s) :
        \A k \in 1..Len(ir[t].inputs) :
            LET v == ir[t].inputs[k]
            IN /\ (ParentNamesOf(s, v) # {} => is_constant(ir, v.node))
               /\ (ir[v.node].scope # s => is_constant(ir, v.node))
               /\ (ir[v.node].type = "Parameter" /\ ir[v.node].scope = s
                   /\ v.node \in DOMAIN graphs[s].m_parameter_to_parent_node_map)
                     => LiftedParameter(s, v)

\* C29: after the input lifting of a body, every input of a node of the body
\* that owns subgraphs (or of a placeholder that owns subgraphs) that was a
\* non-constant value of the parent scope is a lifted parameter of the body,
\* with the bookkeeping of an explicit input, whether the node that makes the
\* value in the parent scope has a declared name or not.
C29_ImplicitInputsLifted ==
    \A s \in ConvertedBodies : ImplicitInputsLifted(s)

\* the same, for values of the parent scope made by nodes without a declared
\* name
ImplicitInputsOfUnnamedProducersLifted ==
    \A s \in ConvertedBodies :
        (\A p \in Ancestors(s) : \A n \in Nodes(graphs[p]) : n.name = "")
            => ImplicitInputsLifted(s)

\* the same, where no node name of the enclosing scopes is the name of a
\* value
LiftingStepWhenNamesApart ==
    (LiftingDue /\ NodeNamesApart) => \A k \in 1..Len(LiftCalls) : Lifted(LiftCalls[k])

\* a body about to make two calls, while it reads a Constant of its parent
LiftsBesideConstant ==
    /\ LiftingDue
    /\ NodeNamesApart
    /\ Len(LiftCalls) >= 2
    /\ \E n \in Nodes(graphs[Top.graph]) : \E a \in 1..Len(n.input) :
          /\ is_ng_node_in_cache(graphs, graphs[Top.graph].m_parent_graph, n.input[a])
          /\ is_constant(ir, get_ng_node_from_cache(graphs, graphs[Top.graph].m_parent_graph,
                                                   n.input[a]).node)

(***************************************************************************)
(* Refreshing the lifted parameters.                                       *)
(***************************************************************************)
\* the node at the top of the stack may call infer_inputs_from_parent of its
\* body `s`
InferDue(s) ==
    /\ Running
    /\ Top.pc = "nodes"
    /\ Top.j = Len(Top.built)
    /\ s \in Range(Top.built)
    /\ graphs[s].function.built

\* the value the parent scope of `s` holds for the name recorded for `p`
ParentValue(s, p) ==
    get_ng_node_from_cache(graphs, graphs[s].m_parent_graph,
                           graphs[s].m_parameter_to_parent_node_map[p])

\* `irs` is `ir` with every lifted parameter of `s` refreshed and nothing
\* else changed
Refreshed(s, irs) ==
    /\ Len(irs) = Len(ir)
    /\ \A p \in DOMAIN graphs[s].m_parameter_to_parent_node_map :
          /\ irs[p].element_type = irs[ParentValue(s, p).node].element_type
          /\ irs[p].shape = irs[ParentValue(s, p).node].shape
          /\ irs[p] = [ir[p] EXCEPT !.element_type = irs[p].element_type,
                                    !.shape = irs[p].shape]
    /\ \A n \in 1..Len(ir) :
          n \notin DOMAIN graphs[s].m_parameter_to_parent_node_map => irs[n] = ir[n]

\* a step that changes the element type or shape of a parameter of a body of
\* the node at the top of the stack
RefreshStep ==
    /\ Len(ir') = Len(ir)
    /\ \E s \in 1..Len(graphs) :
          /\ InferDue(s)
          /\ \E p \in DOMAIN graphs[s].m_parameter_to_parent_node_map : ir'[p] # ir[p]

RefreshKeepsGraphs ==
    RefreshStep =>
        /\ graphs' = graphs
        /\ stack' = stack
        /\ \E s \in 1..Len(graphs) :
              InferDue(s) /\ ir' = infer_inputs_from_parent(graphs, s, ir)

\* C30: infer_inputs_from_parent gives every lifted parameter the element
\* type and shape of the value its recorded name is bound to in the parent
\* scope at that moment, also when that value was retyped or reshaped after
\* the body was imported, and changes nothing else: no other IR node, no
\* cache, parameter list, map or list of borrowed names.
C30_ParametersRefreshed ==
    /\ [](\A s \in 1..Len(graphs) :
             InferDue(s) => Refreshed(s, infer_inputs_from_parent(graphs, s, ir)))
    /\ [][RefreshKeepsGraphs]_vars

\* a body whose lifted parameter no longer has the element type and shape of
\* the value it stands for, the node that owns the body about to use it
C30_Witness ==
    \E s \in 1..Len(graphs) :
        /\ InferDue(s)
        /\ \E p \in DOMAIN graphs[s].m_parameter_to_parent_node_map :
              /\ ir[p].element_type # ir[ParentValue(s, p).node].element_type
              /\ ir[p].shape # ir[ParentValue(s, p).node].shape

(***************************************************************************)
(* Two conversions side by side.                                           *)
(***************************************************************************)
\* the Graph objects of the conversion whose top-level Graph is `top`
Owned(top) == {s \in 1..Len(graphs) : top \in Range(Chain(s))}

\* the IR nodes made by the Graph objects `gs`
NodesOf(gs) == {n \in 1..Len(ir) : ir[n].scope \in gs}

\* the position of `n` among the members of `S`, 0 if it is none
Rank(S, n) == IF n \in S THEN Cardinality({m \in S : m <= n}) ELSE 0

\* the member of `S` at position `k`
AtRank(S, k) == CHOOSE n \in S : Rank(S, n) = k

\* an output, its node named by its position among the nodes `ns`
OutputOf(ns, o) == [node |-> Rank(ns, o.node), index |-> o.index]

\* a name given for want of a declared one, by position
NameOf(ns, n) ==
    IF ir[n].friendly_name = AutoName(ir[n].type, n)
    THEN AutoName(ir[n].type, Rank(ns, n))
    ELSE ir[n].friendly_name

NodeOf(gs, ns, n) ==
    [type |-> ir[n].type, friendly_name |-> NameOf(ns, n),
     inputs |-> [k \in 1..Len(ir[n].inputs) |-> OutputOf(ns, ir[n].inputs[k])],
     names |-> ir[n].names, element_type |-> ir[n].element_type,
     shape |-> ir[n].shape, data |-> ir[n].data,
     scope |-> Rank(gs, ir[n].scope)]

FunctionOf(ns, f) ==
    [built |-> f.built,
     results |-> [k \in 1..Len(f.results) |-> Rank(ns, f.results[k])],
     parameters |-> [k \in 1..Len(f.parameters) |-> Rank(ns, f.parameters[k])]]

GraphOf(gs, ns, s) ==
    LET g == graphs[s]
    IN [m_model |-> g.m_model,
        m_opset |-> g.m_opset,
        m_cache |-> [x \in DOMAIN g.m_cache |-> OutputOf(ns, g.m_cache[x])],
        m_parameters |-> [k \in 1..Len(g.m_parameters) |-> Rank(ns, g.m_parameters[k])],
        m_parent_graph |-> Rank(gs, g.m_parent_graph),
        m_inputs_from_parent |-> g.m_inputs_from_parent,
        m_parameter_to_parent_node_map |->
            {<<Rank(ns, q), g.m_parameter_to_parent_node_map[q]>> :
                q \in DOMAIN g.m_parameter_to_parent_node_map},
        unknown_operators |-> g.unknown_operators,
        function |-> FunctionOf(ns, g.function)]

\* what the conversion of `top` has reached at position `c`: how it ended,
\* and its Graph objects and IR nodes in the order it made them
ResultOf(top, c) ==
    LET gs == Owned(top)
        ns == NodesOf(gs)
    IN [status |-> c.status,
        failure |-> c.failure,
        graphs |-> [k \in 1..Cardinality(gs) |-> GraphOf(gs, ns, AtRank(gs, k))],
        ir |-> [k \in 1..Cardinality(ns) |-> NodeOf(gs, ns, AtRank(ns, k))]]

\* the position of the conversion of `top`, running or not
ContextOf(top) ==
    IF parked.running = top THEN Context(stack, status, failure) ELSE parked.other

Ended(c) == c.status \in {"done", "failed"}

\* the top-level Graph of the conversion that ran alone
First == Head(parked.alone.stack).graph

\* the conversion of `model` that ran beside another one ended as the one
\* that ran alone
SameAsAlone ==
    (parked.phase = "pair" /\ Ended(ContextOf(parked.tops[1]))) =>
        ResultOf(parked.tops[1], ContextOf(parked.tops[1])) = ResultOf(First, parked.alone)

\* the top-level Graph of the conversion that is not running
Waiting == IF parked.running = parked.tops[1] THEN parked.tops[2] ELSE parked.tops[1]

\* a step of one conversion leaves the Graph objects and the IR nodes of the
\* other one, and those of the conversion that ran alone, as they are
OthersUntouched ==
    (parked.phase = "pair") =>
        LET gs == Owned(Waiting) \cup Owned(First)
        IN /\ \A s \in gs : graphs'[s] = graphs[s]
           /\ \A n \in NodesOf(gs) : ir'[n] = ir[n]

\* the inputs, cache entries and parameters of the Graph objects `gs` are
\* nodes made by them
OwnValues(gs, ns) ==
    /\ \A n \in ns : \A k \in 1..Len(ir[n].inputs) : ir[n].inputs[k].node \in ns
    /\ \A s \in gs :
          /\ \A x \in DOMAIN graphs[s].m_cache : graphs[s].m_cache[x].node \in ns
          /\ Range(graphs[s].m_parameters) \subseteq ns

\* every input and every cache entry of a conversion is a node of its own
OwnValuesOnly ==
    (parked.phase = "pair") =>
        \A t \in 1..Len(parked.tops) :
            OwnValues(Owned(parked.tops[t]), NodesOf(Owned(parked.tops[t])))

\* C22: two conversions, each with a Graph of its own, interleaved in any
\* way: each ends as it does when run alone (success or failure, caches,
\* parameter lists, enabled domains, outputs, names), and no step of one
\* touches a Graph object or an IR node of the other.
C22_IndependentConversions ==
    /\ []SameAsAlone
    /\ []OwnValuesOnly
    /\ [][OthersUntouched]_vars

\* both conversions have ended, each resumed after the other had begun, and
\* the one compared lifted a value in a body
C22_Witness ==
    /\ parked.phase = "pair"
    /\ Ended(ContextOf(parked.tops[1]))
    /\ Ended(ContextOf(parked.tops[2]))
    /\ \E n \in NodesOf(Owned(parked.tops[1])) : \E m \in NodesOf(Owned(parked.tops[2])) :
       \E l \in NodesOf(Owned(parked.tops[1])) : n < m /\ m < l
    /\ \E s \in Owned(parked.tops[1]) : graphs[s].m_inputs_from_parent # <<>>
    /\ graphs[parked.tops[2]].unknown_operators = <<>>

(***************************************************************************)
(* Telemetry.                                                              *)
(***************************************************************************)
\* the second conversion of the model has ended
EndedAgain == parked.phase = "again" /\ status \in {"done", "failed"}

\* C31: counting the operators and reporting the counts does not change what
\* the importer does: the conversion of a model with a telemetry sink and the
\* one without end alike (success or failure, the exception with its
\* message, caches, enabled domains, unknown operators, parameter lists,
\* functions, IR nodes with their names).
C31_TelemetryIsAdvisory ==
    EndedAgain =>
        ResultOf(parked.tops[1], Context(stack, status, failure))
            = ResultOf(First, parked.alone)

\* a model with an operator that is not supported, converted with a sink and
\* without one; the sink got the counts
C31_Witness ==
    /\ EndedAgain
    /\ events # <<>>
    /\ failure.type = "CheckFailure"
    /\ Len(model.node) >= 2

(***************************************************************************)
(* The names looked up.                                                    *)
(***************************************************************************)
RECURSIVE UpToFirstMissing(_, _)
\* the names of `names` that a loop looks up in scope `s` when it stops at
\* the first one that is not there; empty names are not looked up
UpToFirstMissing(s, names) ==
    IF names = <<>> THEN {}
    ELSE IF names[1] = "" THEN UpToFirstMissing(s, Tail(names))
    ELSE IF ~is_ng_node_in_cache(graphs, s, names[1]) THEN {names[1]}
    ELSE {names[1]} \cup UpToFirstMissing(s, Tail(names))

\* Graph::get_ng_outputs is about to run for the scope at the top of the
\* stack: the names it passes to get_ng_node_from_cache
OutputLookups ==
    IF Running /\ Top.pc = "create_function"
    THEN UpToFirstMissing(Top.graph,
                          [k \in 1..Len(graphs[Top.graph].m_model.output) |->
                              graphs[Top.graph].m_model.output[k].name])
    ELSE {}

\* a node of the scope at the top of the stack is about to be dispatched or
\* wrapped: the names Node::get_ng_inputs looks up
InputLookups ==
    IF /\ Running
       /\ Top.pc \in {"nodes", "decode_nodes"}
       /\ Len(Top.built) = Len(CurrentNode.subgraphs)
       /\ Top.j = Len(Top.built)
       /\ Top.pc = "nodes" => is_operator_available(graphs[Top.graph].m_opset, CurrentNode)
    THEN UpToFirstMissing(Top.graph, CurrentNode.input)
    ELSE {}

\* the names get_inputs_from_parent and infer_inputs_from_parent of the
\* bodies of that node look up in the scope of the node
BorrowedLookups ==
    IF /\ Running
       /\ Top.pc \in {"nodes", "decode_nodes"}
       /\ Top.j = Len(Top.built)
    THEN UNION {Range(graphs[b].m_inputs_from_parent) : b \in Range(Top.built)}
    ELSE {}

\* the names find_inputs_from_parent looks up in the parent scope, each in
\* the state of its call
LiftLookupsContained ==
    LiftingDue =>
        \A k \in 1..Len(LiftCalls) :
            is_ng_node_in_cache(LiftCalls[k].before.gs,
                                LiftCalls[k].before.gs[LiftCalls[k].scope].m_parent_graph,
                                LiftCalls[k].in_name)

\* C32: the importer calls get(name) of a cache only for a name that the
\* scope asked holds at that moment (its own cache, or for a Subgraph the
\* caches of the scopes above it), whatever the model, also when a declared
\* output is the name of no node output, input or initializer.
C32_GetOnlyContained ==
    /\ \A name \in OutputLookups \cup InputLookups \cup BorrowedLookups :
          is_ng_node_in_cache(graphs, Top.graph, name)
    /\ LiftLookupsContained

\* the same for the lookups that follow a test of is_ng_node_in_cache or
\* repeat an earlier lookup: lifting, get_inputs_from_parent and
\* infer_inputs_from_parent
GuardedLookupsContained ==
    /\ \A name \in BorrowedLookups : is_ng_node_in_cache(graphs, Top.graph, name)
    /\ LiftLookupsContained

\* Graph::get_ng_outputs alone
OutputLookupsContained ==
    \A name \in OutputLookups : is_ng_node_in_cache(graphs, Top.graph, name)

(***************************************************************************)
(* The names of the Results.                                               *)
(***************************************************************************)
\* the declared output names of scope `s`, in order
DeclaredOutputs(s) ==
    [k \in 1..Len(graphs[s].m_model.output) |-> graphs[s].m_model.output[k].name]

\* those whose value is not the marker of an absent optional value: the
\* ones get_ng_outputs makes a Result for
ResolvedOutputs(s) ==
    Filter(DeclaredOutputs(s),
           {name \in Range(DeclaredOutputs(s)) :
               ~is_null(ir, get_ng_node_from_cache(graphs, s, name))})

\* Result `k` of the function of `s` is named after the declared output it
\* was made for and the index of the output it takes
ResultNamed(s, k) ==
    LET result == ir[graphs[s].function.results[k]]
    IN /\ result.inputs[1] = get_ng_node_from_cache(graphs, s, ResolvedOutputs(s)[k])
       /\ result.friendly_name
             = ResolvedOutputs(s)[k] \o "/sink_port_" \o ToString(result.inputs[1].index)

ResultsNamed(s) ==
    /\ Len(graphs[s].function.results) = Len(ResolvedOutputs(s))
    /\ \A k \in 1..Len(ResolvedOutputs(s)) : ResultNamed(s, k)

\* C33: every Result of a created function is named
\* '<declared output name>/sink_port_<index of the source output>', the
\* declared output being the one whose value the Result takes, also when
\* declared outputs that are null were skipped.
C33_ResultsNamedAfterTheirOutput ==
    \A s \in 1..Len(graphs) : graphs[s].function.built => ResultsNamed(s)

\* the same for functions none of whose declared outputs is null
ResultsNamedWhenNoneSkipped ==
    \A s \in 1..Len(graphs) :
        (graphs[s].function.built /\ ResolvedOutputs(s) = DeclaredOutputs(s))
            => ResultsNamed(s)

(***************************************************************************)
(* The cache after a node failed.                                          *)
(***************************************************************************)
CacheKept == graphs'[Top.graph].m_cache = graphs[Top.graph].m_cache

\* C34: when the conversion of a node fails, in the conversion function, in
\* the naming or while the outputs are put into the cache (as when fewer
\* outputs are returned than the node declares), the cache of the scope has
\* the entries it had before the node, and no output of the node.
C34_FailedNodeLeavesCache == [][NodeFailed => CacheKept]_vars

\* the same for the failures raised before the outputs are put into the
\* cache: by the lookup of the inputs and by the conversion function
FailedDispatchLeavesCache ==
    [][(NodeFailed /\ Dispatch.thrown # "") => CacheKept]_vars

(***************************************************************************)
(* Lifting and the names of the body itself.                               *)
(***************************************************************************)
\* what find_inputs_from_parent leaves behind for the body at the top of the
\* stack
AfterLifting ==
    find_inputs_from_parent([gs |-> graphs, ir |-> ir, what |-> "", calls |-> <<>>],
                            Top.graph, 1)

\* lifting makes no parameter for a name of the body, keeps its cache entry
\* and keeps every input edge that comes from its value
LocalNamesKept ==
    \A name \in DOMAIN graphs[Top.graph].m_cache :
        /\ \A k \in 1..Len(LiftCalls) : LiftCalls[k].in_name # name
        /\ contains(AfterLifting.gs[Top.graph].m_cache, name)
        /\ get_node(AfterLifting.gs[Top.graph].m_cache, name)
              = get_node(graphs[Top.graph].m_cache, name)
        /\ \A n \in 1..Len(ir) : \A e \in 1..Len(ir[n].inputs) :
              (ir[n].scope = Top.graph
               /\ ir[n].inputs[e] = get_node(graphs[Top.graph].m_cache, name))
                  => AfterLifting.ir[n].inputs[e] = ir[n].inputs[e]

\* C35: input lifting leaves alone every name that the body binds itself
\* before lifting (initializer, declared input, output of a body node): its
\* cache entry and the input edges that take its value stay, and no
\* parameter is made for it, also when a scope above binds the same name.
C35_LocalNamesNotLifted == LiftingDue => LocalNamesKept

\* no name of the body at the top of the stack is bound in a scope above it
NoNameShadowed ==
    \A name \in DOMAIN graphs[Top.graph].m_cache :
        ~is_ng_node_in_cache(graphs, graphs[Top.graph].m_parent_graph, name)

\* no two node outputs of the body at the top of the stack share a name
OutputsNamedApart ==
    LET nodes == graphs[Top.graph].m_model.node
    IN \A a, b \in 1..Len(nodes) : \A c \in 1..Len(nodes[a].output) :
       \A d \in 1..Len(nodes[b].output) :
          nodes[a].output[c] = nodes[b].output[d] => (a = b /\ c = d)

\* the same for bodies that shadow no name of the scopes above them and name
\* every node output once
UnshadowedLocalNamesNotLifted ==
    (LiftingDue /\ NoNameShadowed /\ OutputsNamedApart) => LocalNamesKept


\* a step of the pruning loop that erases the parameter it examines
Erasing ==
    /\ Pruning
    /\ Len(graphs'[Top.graph].m_parameters) < Len(graphs[Top.graph].m_parameters)

\* across an erasing step the cache loses exactly the entries bound to the
\* erased Parameter and keeps every other entry with its value
CacheFollowsErasure ==
    Erasing =>
        LET s == Top.graph
            erased == graphs[s].m_parameters[Top.i]
            before == graphs[s].m_cache
            after == graphs'[s].m_cache
        IN /\ DOMAIN after = {name \in DOMAIN before : before[name].node # erased}
           /\ \A name \in DOMAIN after : after[name] = before[name]

\* C36: after remove_dangling_parameters the cache and the parameter list
\* agree: no cache entry refers to a removed Parameter and no entry other
\* than the removed Parameters' is removed, also when a node passed a
\* Parameter through as its own output and naming renamed that Parameter.
C36_CacheAgreesWithParameters == [][CacheFollowsErasure]_vars

\* the erased Parameter still carries the friendly name it was created with,
\* and that name is bound to nothing else
NamedAsCreated ==
    LET s == Top.graph
        erased == graphs[s].m_parameters[Top.i]
        name == ir[erased].friendly_name
    IN /\ name \in DOMAIN graphs[s].m_cache
       /\ \A other \in DOMAIN graphs[s].m_cache :
             graphs[s].m_cache[other].node = erased <=> other = name

\* erasing a Parameter that no node renamed removes its cache entry and no
\* other
ErasureOfUnrenamedFollowed ==
    [][(Erasing /\ NamedAsCreated) => CacheFollowsErasure]_vars

\* a Parameter renamed by a pass-through node is erased while the cache still
\* binds its input name to it
RenamedParameterErased ==
    /\ status = "done"
    /\ \E name \in DOMAIN graphs[1].m_cache :
          /\ ir[graphs[1].m_cache[name].node].type = "Parameter"
          /\ graphs[1].m_cache[name].node \in InputParameters(1)
          /\ graphs[1].m_cache[name].node \notin Range(graphs[1].m_parameters)


\* the bodies whose conversion has returned their function
ConvertedSubgraphs ==
    {s \in 1..Len(graphs) : graphs[s].m_parent_graph # 0 /\ graphs[s].function.built}

\* the parameter list of body `s`: the Parameters of its declared inputs in
\* the order of declaration, then the lifted ones in the order of lifting
DeclaredThenLifted(s) ==
    LET g == graphs[s]
        declared == InputParameters(s)
        n == Cardinality(declared)
        bound == FirstOccurrences(InputNames(g), InitializerNames(g))
        lifted == g.m_inputs_from_parent
    IN /\ n = Len(bound)
       /\ Len(g.m_parameters) = n + Len(lifted)
       /\ \A k \in 1..n : g.m_parameters[k] = AtRank(declared, k)
       /\ \A k \in 1..Len(lifted) :
             LET p == g.m_parameters[n + k]
             IN /\ p \in DOMAIN g.m_parameter_to_parent_node_map
                /\ g.m_parameter_to_parent_node_map[p] = lifted[k]
                /\ k > 1 => g.m_parameters[n + k - 1] < p
       /\ {p \in 1..Len(ir) : ir[p].type = "Parameter" /\ ir[p].scope = s}
             = Range(g.m_parameters)
       /\ g.function.parameters = g.m_parameters

\* the Parameters of a body are made in the order of declaration and named
\* after the inputs when its constructor returns
DeclaredInOrder ==
    \A s \in JustConstructed :
        graphs[s].m_parent_graph # 0 =>
            LET g == graphs[s]
                bound == FirstOccurrences(InputNames(g), InitializerNames(g))
            IN /\ Len(g.m_parameters) = Len(bound)
               /\ \A k \in 1..Len(bound) :
                     /\ g.m_parameters[k] = AtRank(InputParameters(s), k)
                     /\ ir[g.m_parameters[k]].friendly_name = bound[k]

\* no step takes a parameter from the list of a body
NeverPruned ==
    \A s \in 1..Len(graphs) :
        graphs[s].m_parent_graph # 0 =>
            /\ Len(graphs'[s].m_parameters) >= Len(graphs[s].m_parameters)
            /\ SubSeq(graphs'[s].m_parameters, 1, Len(graphs[s].m_parameters))
                  = graphs[s].m_parameters

\* C37: Subgraph::convert never prunes: the parameter list of a converted
\* subgraph is every Parameter created for its declared inputs, consumed or
\* not, in declaration order, followed by the lifted parameters in the
\* order in which they were lifted; only the top-level Graph::convert
\* removes dangling parameters.
C37_SubgraphKeepsParameters ==
    /\ [](\A s \in ConvertedSubgraphs : DeclaredThenLifted(s))
    /\ []DeclaredInOrder
    /\ [][NeverPruned]_vars

\* a converted body that keeps the Parameter of a declared input nothing
\* consumes, before two lifted parameters
C37_Witness ==
    \E s \in ConvertedSubgraphs :
        /\ \E p \in InputParameters(s) :
              /\ get_target_inputs(graphs, ir, Output(p, 0)) = {}
              /\ get_names(ir, Output(p, 0)) \cap DeclaredOutputNames(graphs[s]) = {}
              /\ p \in Range(graphs[s].function.parameters)
        /\ Len(graphs[s].m_inputs_from_parent) >= 2


(***************************************************************************)
(* The benchmark application.                                              *)
(***************************************************************************)
\* the ids of the steps announced so far, in the order of the calls
AnnouncedSteps == [k \in 1..Len(app.announced) |-> app.announced[k].step_id]

\* main has run to its end and returned 0
Completed == app.pc = "returned" /\ app.result = 0 /\ ~app.FLAGS_help

\* every call of next_step announced the stage that made it, and the stage
\* main is in is the one announced last
StageAnnounced ==
    /\ \A k \in 1..Len(app.announced) :
          /\ app.announced[k].step_id = app.announced[k].stage
          /\ app.announced[k].title = step_names[app.announced[k].stage]
    /\ app.announced # <<>> => Last(app.announced).step_id = app.stage

\* C38: on every run of main that completes without error, whichever way
\* the model is loaded (load from file, read network, import of a compiled
\* blob), next_step is called exactly once for each of the 11 steps in
\* increasing order: the announced number and title match the stage being
\* executed and the step counter never exceeds 11.
C38_EveryStepAnnouncedOnce ==
    /\ app.step_id <= Len(step_names)
    /\ StageAnnounced
    /\ Completed => AnnouncedSteps = [k \in 1..Len(step_names) |-> k]

\* the model is read or imported, not loaded from its file by the device
ReadOrImported == app.isNetworkCompiled \/ ~app.FLAGS_load_from_file

\* when the network is read or imported the eleven steps are announced once
\* each, in order, by the stages they name
StepsAnnouncedWhenReadOrImported == ReadOrImported => C38_EveryStepAnnouncedOnce

\* a run that read or imported its model has returned 0
ReadOrImportedCompleted == ReadOrImported /\ Completed /\ app.isNetworkCompiled

\* `n` rounded up to a multiple of `m`
RoundedUp(n, m) == ((n + m - 1) \div m) * m

\* what the iteration limit is aligned to
AlignmentUnit ==
    IF app.shape_groups_num > app.nireq THEN app.shape_groups_num ELSE app.nireq

\* the measurement loop of an async run with an iteration limit and no time
\* limit has been left
LimitedAsyncMeasured ==
    /\ app.pc = "dump"
    /\ app.FLAGS_api = "async"
    /\ app.FLAGS_niter > 0
    /\ app.FLAGS_t = 0

\* C39: in async mode with an iteration limit and no time limit the
\* measurement loop executes exactly the aligned iteration count, the
\* requested niter rounded up to a multiple of the number of data-shape
\* groups when that exceeds the number of infer requests, otherwise to a
\* multiple of the number of infer requests, and the reported total number
\* of iterations is that count.
C39_AlignedIterationsExecuted ==
    LimitedAsyncMeasured =>
        /\ app.iteration = RoundedUp(app.FLAGS_niter, AlignmentUnit)
        /\ app.total_iterations = RoundedUp(app.FLAGS_niter, AlignmentUnit)

\* the sum that is rounded fits a uint32_t and the aligned count is a
\* multiple of the number of infer requests
AlignedToRequests ==
    /\ app.FLAGS_niter + AlignmentUnit - 1 <= UintMax
    /\ RoundedUp(app.FLAGS_niter, AlignmentUnit) % app.nireq = 0

\* the loop executes the aligned count when that count is a multiple of the
\* number of infer requests
AlignedIterationsWhenRequestsDivide ==
    (LimitedAsyncMeasured /\ AlignedToRequests) => C39_AlignedIterationsExecuted

\* without overflow the loop executes the aligned count made a multiple of
\* the number of infer requests
IterationsRoundedToRequests ==
    (LimitedAsyncMeasured /\ app.FLAGS_niter + AlignmentUnit - 1 <= UintMax) =>
        /\ app.iteration = RoundedUp(RoundedUp(app.FLAGS_niter, AlignmentUnit), app.nireq)
        /\ app.total_iterations = app.iteration

\* with a limit that the loop can reach within the iterations followed, the
\* measurement loop is left
MeasurementEnds ==
    (/\ app.pc = "loop"
     /\ app.FLAGS_api = "async"
     /\ app.FLAGS_niter \in 1..MaxNiter
     /\ app.FLAGS_t = 0) ~> (app.pc = "dump")

====
